---- MODULE Spec2Model ----
(***************************************************************************)
(* x402 "exact" scheme on Aptos: the facilitator's verify / settle          *)
(* pipeline (three snapshots of ExactAptosScheme) and the legacy            *)
(* orchestrator with its Aptos verify and settle.                           *)
(*                                                                          *)
(* A payment attempt (payload, requirements) is fixed in the initial state; *)
(* verify and settle are then called on it, the chain adapter answering     *)
(* each call nondeterministically (balance, simulate, submit, wait).        *)
(***************************************************************************)
EXTENDS Integers, Sequences, FiniteSets, TLC

VARIABLES
  snapshot,         \* which snapshot of the facilitator code is deployed
  signerAddresses,  \* this.signer.getAddresses(): fixed at construction
  payload,          \* the PaymentPayload of the attempt
  requirements,     \* the PaymentRequirements of the attempt
  now,              \* Math.floor(Date.now() / 1000)
  pc,               \* position of the in-flight settle call ("idle" if none)
  valid,            \* settle's local `valid` (the re-verify's VerifyResponse)
  pendingTxn,       \* settle's local `pendingTxn.hash`
  log,              \* chain-adapter calls made by the last / in-flight call;
                    \* "unavailable" follows a balance query that threw,
                    \* "undefined public key" precedes a simulate that is
                    \* handed no public key,
                    \* "threw" a simulate or a submission that threw, "timeout"
                    \* or "failed" a wait that threw
  ret,              \* outcome of the last completed call
  priorVerify,      \* history: a separate verify of the attempt has passed
  submitted,        \* the fee payer of the transaction as settle handed it to
                    \* the chain, and the account that signed as fee payer
  transactionBytes,    \* codec: the bytes the client encodes as `transaction`
  authenticatorBytes,  \* codec: the bytes it encodes as `senderAuthenticator`
  base64Transaction,   \* codec: the encoded string (payload.transaction)
  decoded,             \* codec: what deserializeAptosPayment made of it
  moneyParsers,        \* server: this.moneyParsers, in registration order
  price,               \* server: the price handed to parsePrice
  priceNetwork,        \* server: the network handed to parsePrice
  parserCalls,         \* server: the parsers the last parsePrice called, in
                       \* order (0: the default conversion)
  assetAmount,         \* server: the outcome of the last parsePrice
  baseRequirements,    \* server: the requirements object handed to
                       \* enhancePaymentRequirements
  supportedKind,       \* server: the kind the facilitator advertised
  enhanced,            \* server: what enhancePaymentRequirements returned
  advertised,          \* pool: what the last getExtra returned
  callerArray,         \* pool: the array a caller of getSigners holds
  settles,             \* replay: the settle calls on one payload, each with
                       \* its position, locals and response
  mempool,             \* replay: hashes the chain took in and may commit
  committed,           \* replay: the hash committed for the payload's
                       \* sequence number ("none" before)
  commitCount,         \* replay: how often the chain committed the transfer
  networkId,           \* network: the identifier handed to getAptosNetwork
  aptosNetwork,        \* network: what getAptosNetwork made of it
  clientKind,          \* client: which client function is called
  clientInput,         \* client: the signer and the requirements it is given
  clientCall           \* client: how far the call got and how it ended

facilitatorVars ==
  <<snapshot, signerAddresses, payload, requirements, now, pc, valid,
    pendingTxn, log, ret, priorVerify, submitted>>

codecVars == <<transactionBytes, authenticatorBytes, base64Transaction, decoded>>

priceVars == <<moneyParsers, price, priceNetwork, parserCalls, assetAmount>>
enhanceVars == <<baseRequirements, supportedKind, enhanced>>
serverVars == <<priceVars, enhanceVars>>

poolVars == <<advertised, callerArray>>
replayVars == <<settles, mempool, committed, commitCount>>
networkVars == <<networkId, aptosNetwork>>
clientVars == <<clientKind, clientInput, clientCall>>

\* everything outside verify and settle, outside the codec, outside the server
nonFacilitatorVars == <<codecVars, serverVars, poolVars, replayVars, networkVars, clientVars>>
nonCodecVars == <<facilitatorVars, serverVars, poolVars, replayVars, networkVars, clientVars>>
nonServerVars == <<facilitatorVars, codecVars, poolVars, replayVars, networkVars, clientVars>>

vars == <<facilitatorVars, codecVars, serverVars, poolVars, replayVars, networkVars, clientVars>>

----------------------------------------------------------------------------
(* Bounds and program constants *)

\* the clock advances at most this far during one attempt
MaxNow == 1

\* part_001:259 (first snapshot) and part_001:611 (second snapshot)
EXPIRATION_BUFFER_SECONDS_A == 30
EXPIRATION_BUFFER_SECONDS_B == 5

----------------------------------------------------------------------------
(* Values *)

\* AccountAddress values
S  == "0xS"      \* the client
F1 == "0xF1"     \* facilitator signer
F2 == "0xF2"     \* facilitator signer
X  == "0xX"      \* an address no signer of the facilitator has
A  == "0xA"      \* the required asset
A2 == "0xA2"
R  == "0xR"      \* the required recipient
R2 == "0xR2"
ONE == "0x1"     \* AccountAddress.ONE
TWO == "0x2"
NoAddress == "undefined"   \* transaction.feePayerAddress when there is no slot

\* A JavaScript value holding (or failing to hold) the text of an address.
\*   long      0x + 64 lower-case hex digits (what toString/toStringLong print)
\*   mixed     the same address written differently (upper-case digits)
\*   bad       a string AccountAddress.from cannot parse
\*   nonstring a value that is not a string;  absent: undefined
Str(a)   == [hex |-> a, form |-> "long"]
Mixed(a) == [hex |-> a, form |-> "mixed"]
BadStr   == [hex |-> "", form |-> "bad"]
NonString == [hex |-> "", form |-> "nonstring"]
Absent   == [hex |-> "", form |-> "absent"]

\* typeof v === "string"
IsString(v) == v.form \in {"long", "mixed", "bad"}

\* A decimal string: n written plainly, or with a leading zero
Dec(n)    == [n |-> n, form |-> "plain"]
Padded(n) == [n |-> n, form |-> "padded"]

\* The raw bytes of an entry-function argument: 32 bytes hold an address,
\* 8 bytes a little-endian u64, fewer bytes neither.
AddrArg(a) == [len |-> 32, addr |-> a, n |-> 0]
U64Arg(n)  == [len |-> 8, addr |-> "", n |-> n]
ShortArg   == [len |-> 1, addr |-> "", n |-> 0]

Hashes == {"0xh1", "0xh2"}

\* VerifyResponse
Invalid(reason, payer) == [isValid |-> FALSE, invalidReason |-> reason, payer |-> payer]
Valid(payer) == [isValid |-> TRUE, invalidReason |-> "undefined", payer |-> payer]
NoVerify == [isValid |-> FALSE, invalidReason |-> "none", payer |-> "none"]

\* SettleResponse
Settled(hash, network, payer) ==
  [success |-> TRUE, transaction |-> hash, network |-> network, payer |-> payer,
   errorReason |-> "undefined"]
NotSettled(reason, network, payer) ==
  [success |-> FALSE, transaction |-> "", network |-> network, payer |-> payer,
   errorReason |-> reason]
NoSettle == NotSettled("none", "none", "none")

\* outcome of a call: it returned a response, or it threw
Returned(op, v, s) == [op |-> op, threw |-> FALSE, v |-> v, s |-> s]
Threw(op) == [op |-> op, threw |-> TRUE, v |-> NoVerify, s |-> NoSettle]
NoCall == Returned("none", NoVerify, NoSettle)

----------------------------------------------------------------------------
(* SDK primitives as the code uses them *)

\* AccountAddress.toString() / toStringLong() of a non-special address
toString(addr) == Str(addr)

\* AccountAddress.from(<string>) throws on text it cannot parse
fromStringThrows(v) == v.form \notin {"long", "mixed"}
fromString(v) == v.hex

\* AccountAddress.from(arg.bcsToBytes()) throws unless there are 32 bytes
fromBytesThrows(arg) == arg.len # 32
fromBytes(arg) == arg.addr

\* new Deserializer(arg.bcsToBytes()).deserializeU64().toString(10)
deserializeU64Throws(arg) == arg.len < 8
deserializeU64(arg) == Dec(arg.n)

\* signerAddresses.includes(s): strict equality of strings
includes(addresses, s) == \E i \in 1..Len(addresses) : addresses[i] = s

\* getAptosNetwork(network) throws for anything but "aptos:1" and "aptos:2"
getAptosNetworkThrows(network) == network \notin {"aptos:1", "aptos:2"}

\* deserializeAptosPayment(aptosPayload.transaction): base64, JSON and BCS
\* decoding; throws on a string that does not decode
deserializeAptosPaymentThrows(transactionBase64) == ~transactionBase64.wellFormed

\* `entryFunction` is returned only for an entry-function payload
hasEntryFunction(transaction) == transaction.payloadKind = "entryFunction"

----------------------------------------------------------------------------
(* ExactAptosScheme.verify, second snapshot of part_001 (lines 450-661) *)

\* one run of verify: the response it returned (or the exception that left
\* it) and the chain calls it made
Ran(resp, calls) == [threw |-> FALSE, resp |-> resp, calls |-> calls]
Raised(calls) == [threw |-> TRUE, resp |-> NoVerify, calls |-> calls]

\* verify without its outer try block: the exception leaves the call
rethrow(run, generic) == run

\* try { ... } catch (error) { return <generic> }: the outer block of verify
catch(run, generic) == IF run.threw THEN Ran(generic, run.calls) ELSE run

isSponsoredReq(req) == IsString(req.extra.feePayer)

feePayerManaged(signers, req) ==
  includes(signers, req.extra.feePayer)

\* a fee-payer check that only asks for a fee-payer slot
feePayerSlotPresent(transaction, req) ==
  transaction.feePayerAddress # NoAddress

feePayerMatches(transaction, req) ==
  /\ transaction.feePayerAddress # NoAddress
  /\ fromString(req.extra.feePayer) = transaction.feePayerAddress

\* a sender check that looks the AccountAddress object up among the strings
senderObjectIsSigner(signers, transaction) ==
  includes(signers, [hex |-> transaction.sender, form |-> "object"])

senderIsSigner(signers, transaction) ==
  includes(signers, toString(transaction.sender))

isPrimaryFungibleStore(entryFunction) ==
  /\ entryFunction.address = ONE
  /\ entryFunction.module = "primary_fungible_store"
  /\ entryFunction.function = "transfer"

isFungibleAsset(entryFunction) ==
  /\ entryFunction.address = ONE
  /\ entryFunction.module = "fungible_asset"
  /\ entryFunction.function = "transfer"

typeArgsOk(entryFunction) == entryFunction.type_args = 1

argsOk(entryFunction) == Len(entryFunction.args) = 3

assetMatches(faAddressArg, req) ==
  fromBytes(faAddressArg) = fromString(req.asset)

\* a recipient check that only asks for an address
recipientIsAddress(recipientAddressArg, req) ==
  ~fromBytesThrows(recipientAddressArg)

recipientMatches(recipientAddressArg, req) ==
  fromBytes(recipientAddressArg) = fromString(req.payTo)

\* an amount check that tolerates overpayment
amountAtLeast(amountArg, req) ==
  deserializeU64(amountArg).n >= req.amount.n

amountMatches(amountArg, req) ==
  deserializeU64(amountArg) = req.amount

\* BigInt(balance[0]?.amount ?? 0) < BigInt(req.amount)
balanceTooLow(bal, req) == bal.amount < req.amount.n

\* a balance check that takes a failed query for an empty balance
balanceRejectsOnFailure(bal, req) == bal.threw \/ balanceTooLow(bal, req)

\* the balance pre-check: the query and the comparison sit in a try block
\* whose catch is empty
balanceRejects(bal, req) == ~bal.threw /\ balanceTooLow(bal, req)

\* the chain calls up to the balance query
balanceCalls(bal) == IF bal.threw THEN <<"balance", "unavailable">> ELSE <<"balance">>

isExpired(transaction, clock, buffer) ==
  transaction.expiration_timestamp_secs < clock + buffer

\* the public key handed to simulate: none of the branches matches a
\* MultiEd25519 authenticator, which leaves `publicKey` undefined
publicKeyOf(senderAuthenticator) ==
  IF senderAuthenticator \in {"Ed25519", "SingleKey", "MultiKey"}
  THEN senderAuthenticator ELSE "undefined"

\* a check that tries the transaction out by submitting it
simulateBySubmitting(publicKey) == <<"submitTransaction", "waitForTransaction">>

\* aptos.transaction.simulate.simple({ signerPublicKey: publicKey, transaction })
simulateCall(publicKey) ==
  IF publicKey = "undefined" THEN <<"undefined public key", "simulate">>
  ELSE <<"simulate">>

Unexpected == Invalid("invalid_exact_aptos_payload_unexpected_error", "")

\* Steps 5-7 of the second snapshot (7-9 of the first, same text but for the
\* buffer): balance, expiration, simulation
verifyChain(transaction, senderAuthenticator, req, clock, buffer, bal, sim) ==
  LET senderAddress == toString(transaction.sender).hex IN
  IF getAptosNetworkThrows(req.network) THEN Raised(<<>>)
  ELSE IF balanceRejects(bal, req)
  THEN Ran(Invalid("invalid_exact_aptos_payload_insufficient_balance", senderAddress),
           balanceCalls(bal))
  ELSE IF isExpired(transaction, clock, buffer)
  THEN Ran(Invalid("invalid_exact_aptos_payload_transaction_expired", senderAddress),
           balanceCalls(bal))
  ELSE IF sim = "throw"
  THEN Ran(Invalid("invalid_exact_aptos_payload_simulation_error: rpc", senderAddress),
           balanceCalls(bal) \o simulateCall(publicKeyOf(senderAuthenticator)) \o <<"threw">>)
  ELSE IF sim = "failed"
  THEN Ran(Invalid("invalid_exact_aptos_payload_simulation_failed: vm_status", senderAddress),
           balanceCalls(bal) \o simulateCall(publicKeyOf(senderAuthenticator)))
  ELSE Ran(Valid(senderAddress), balanceCalls(bal) \o simulateCall(publicKeyOf(senderAuthenticator)))

\* Steps 3-4 (4-6 of the first snapshot): transfer function, type arguments,
\* arguments
verifyTransfer(transaction, senderAuthenticator, req, clock, buffer, bal, sim) ==
  LET senderAddress == toString(transaction.sender).hex
      entryFunction == transaction.entryFunction
      args == entryFunction.args
  IN
  IF ~hasEntryFunction(transaction)
  THEN Ran(Invalid("invalid_exact_aptos_payload_missing_entry_function", senderAddress), <<>>)
  ELSE IF ~isPrimaryFungibleStore(entryFunction) /\ ~isFungibleAsset(entryFunction)
  THEN Ran(Invalid("invalid_exact_aptos_payload_wrong_function", senderAddress), <<>>)
  ELSE IF ~typeArgsOk(entryFunction)
  THEN Ran(Invalid("invalid_exact_aptos_payload_wrong_type_args", senderAddress), <<>>)
  ELSE IF ~argsOk(entryFunction)
  THEN Ran(Invalid("invalid_exact_aptos_payload_wrong_args", senderAddress), <<>>)
  ELSE IF fromBytesThrows(args[1]) \/ fromStringThrows(req.asset)
  THEN Raised(<<>>)
  ELSE IF ~assetMatches(args[1], req)
  THEN Ran(Invalid("invalid_exact_aptos_payload_asset_mismatch", senderAddress), <<>>)
  ELSE IF fromBytesThrows(args[2]) \/ fromStringThrows(req.payTo)
  THEN Raised(<<>>)
  ELSE IF ~recipientMatches(args[2], req)
  THEN Ran(Invalid("invalid_exact_aptos_payload_recipient_mismatch", senderAddress), <<>>)
  ELSE IF deserializeU64Throws(args[3])
  THEN Raised(<<>>)
  ELSE IF ~amountMatches(args[3], req)
  THEN Ran(Invalid("invalid_exact_aptos_payload_amount_mismatch", senderAddress), <<>>)
  ELSE verifyChain(transaction, senderAuthenticator, req, clock, buffer, bal, sim)

\* Steps 1-2: version, scheme, network, fee payer, decoding, sponsorship
verifyBodyB(pl, req, signers, clock, bal, sim) ==
  LET isSponsored == isSponsoredReq(req)
      transaction == pl.transaction.tx
      senderAddress == toString(transaction.sender).hex
  IN
  IF pl.x402Version # 2
  THEN Ran(Invalid("invalid_exact_aptos_payload_unsupported_version", ""), <<>>)
  ELSE IF ~pl.accepted.present
  THEN Raised(<<>>)
  ELSE IF pl.accepted.scheme # "exact" \/ req.scheme # "exact"
  THEN Ran(Invalid("unsupported_scheme", ""), <<>>)
  ELSE IF pl.accepted.network # req.network
  THEN Ran(Invalid("network_mismatch", ""), <<>>)
  ELSE IF isSponsored /\ ~feePayerManaged(signers, req)
  THEN Ran(Invalid("fee_payer_not_managed_by_facilitator", ""), <<>>)
  ELSE IF deserializeAptosPaymentThrows(pl.transaction)
  THEN Raised(<<>>)
  ELSE IF isSponsored /\ fromStringThrows(req.extra.feePayer)
  THEN Raised(<<>>)
  ELSE IF isSponsored /\ ~feePayerMatches(transaction, req)
  THEN Ran(Invalid("invalid_exact_aptos_payload_fee_payer_mismatch", senderAddress), <<>>)
  ELSE IF isSponsored /\ senderIsSigner(signers, transaction)
  THEN Ran(Invalid("invalid_exact_aptos_payload_fee_payer_transferring_funds", senderAddress), <<>>)
  ELSE verifyTransfer(transaction, pl.transaction.senderAuthenticator, req, clock,
                      EXPIRATION_BUFFER_SECONDS_B, bal, sim)


verifyB(pl, req, signers, clock, bal, sim) ==
  catch(verifyBodyB(pl, req, signers, clock, bal, sim), Unexpected)

----------------------------------------------------------------------------
(* ExactAptosScheme.verify, first snapshot of part_001 (lines 63-318) *)

\* !req.extra?.feePayer || typeof req.extra.feePayer !== "string"
feePayerMissing(req) == ~IsString(req.extra.feePayer)

verifyBodyA(pl, req, signers, clock, bal, sim) ==
  LET transaction == pl.transaction.tx
      senderAddress == toString(transaction.sender).hex
  IN
  IF pl.x402Version # 2
  THEN Ran(Invalid("invalid_exact_aptos_payload_unsupported_version", ""), <<>>)
  ELSE IF ~pl.accepted.present
  THEN Raised(<<>>)
  ELSE IF pl.accepted.scheme # "exact" \/ req.scheme # "exact"
  THEN Ran(Invalid("unsupported_scheme", ""), <<>>)
  ELSE IF pl.accepted.network # req.network
  THEN Ran(Invalid("network_mismatch", ""), <<>>)
  ELSE IF feePayerMissing(req)
  THEN Ran(Invalid("invalid_exact_aptos_payload_missing_fee_payer", ""), <<>>)
  ELSE IF ~feePayerManaged(signers, req)
  THEN Ran(Invalid("fee_payer_not_managed_by_facilitator", ""), <<>>)
  ELSE IF deserializeAptosPaymentThrows(pl.transaction)
  THEN Raised(<<>>)
  ELSE IF fromStringThrows(req.extra.feePayer)
  THEN Raised(<<>>)
  ELSE IF ~feePayerMatches(transaction, req)
  THEN Ran(Invalid("invalid_exact_aptos_payload_fee_payer_mismatch", senderAddress), <<>>)
  ELSE IF senderIsSigner(signers, transaction)
  THEN Ran(Invalid("invalid_exact_aptos_payload_fee_payer_transferring_funds", senderAddress), <<>>)
  ELSE verifyTransfer(transaction, pl.transaction.senderAuthenticator, req, clock,
                      EXPIRATION_BUFFER_SECONDS_A, bal, sim)

verifyA(pl, req, signers, clock, bal, sim) ==
  catch(verifyBodyA(pl, req, signers, clock, bal, sim), Unexpected)

----------------------------------------------------------------------------
(* ExactAptosScheme.verify, scheme.ts (lines 57-217) *)

UnexpectedC == Invalid("unexpected_verify_error", "")

\* Step 6: the client is created inside the simulation's try block
simulateC(transaction, senderAuthenticator, req, sim) ==
  LET senderAddress == toString(transaction.sender).hex IN
  IF getAptosNetworkThrows(req.network)
  THEN Ran(Invalid("simulation_error: Unsupported Aptos network", senderAddress), <<>>)
  ELSE IF sim = "throw"
  THEN Ran(Invalid("simulation_error: rpc", senderAddress),
           simulateCall(publicKeyOf(senderAuthenticator)) \o <<"threw">>)
  ELSE IF sim = "failed"
  THEN Ran(Invalid("simulation_failed: vm_status", senderAddress), simulateCall(publicKeyOf(senderAuthenticator)))
  ELSE Ran(Valid(senderAddress), simulateCall(publicKeyOf(senderAuthenticator)))

verifyBodyC(pl, req, sim) ==
  LET transaction == pl.transaction.tx
      senderAddress == toString(transaction.sender).hex
      entryFunction == transaction.entryFunction
      args == entryFunction.args
  IN
  IF ~pl.accepted.present
  THEN Raised(<<>>)
  ELSE IF pl.accepted.scheme # "exact" \/ req.scheme # "exact"
  THEN Ran(Invalid("unsupported_scheme", ""), <<>>)
  ELSE IF pl.accepted.network # req.network
  THEN Ran(Invalid("network_mismatch", ""), <<>>)
  ELSE IF deserializeAptosPaymentThrows(pl.transaction)
  THEN Raised(<<>>)
  ELSE IF ~hasEntryFunction(transaction)
  THEN Ran(Invalid("invalid_payment_missing_entry_function", senderAddress), <<>>)
  ELSE IF ~isPrimaryFungibleStore(entryFunction)
  THEN Ran(Invalid("invalid_payment_wrong_function", senderAddress), <<>>)
  ELSE IF ~typeArgsOk(entryFunction)
  THEN Ran(Invalid("invalid_payment_wrong_type_args", senderAddress), <<>>)
  ELSE IF ~argsOk(entryFunction)
  THEN Ran(Invalid("invalid_payment_wrong_args", senderAddress), <<>>)
  ELSE IF fromBytesThrows(args[1]) \/ fromStringThrows(req.asset)
  THEN Raised(<<>>)
  ELSE IF ~assetMatches(args[1], req)
  THEN Ran(Invalid("invalid_payment_asset_mismatch", senderAddress), <<>>)
  ELSE IF fromBytesThrows(args[2]) \/ fromStringThrows(req.payTo)
  THEN Raised(<<>>)
  ELSE IF ~recipientMatches(args[2], req)
  THEN Ran(Invalid("invalid_payment_recipient_mismatch", senderAddress), <<>>)
  ELSE IF deserializeU64Throws(args[3])
  THEN Raised(<<>>)
  ELSE IF ~amountMatches(args[3], req)
  THEN Ran(Invalid("invalid_payment_amount_mismatch", senderAddress), <<>>)
  ELSE simulateC(transaction, pl.transaction.senderAuthenticator, req, sim)

verifyC(pl, req, sim) == catch(verifyBodyC(pl, req, sim), UnexpectedC)

\* the verify of the deployed snapshot
verify(snap, pl, req, signers, clock, bal, sim) ==
  CASE snap = "A" -> verifyA(pl, req, signers, clock, bal, sim)
    [] snap = "B" -> verifyB(pl, req, signers, clock, bal, sim)
    [] snap = "C" -> verifyC(pl, req, sim)


----------------------------------------------------------------------------
(* ExactAptosScheme.settle (part_001 lines 327-392 and 670-724, scheme.ts   *)
(* lines 226-289)                                                           *)

\* a settle that goes on to submission whatever the re-verify answered
settleWhateverVerifySaid(v) == TRUE

\* `if (!valid.isValid) return ...` guards everything that follows
settleProceeds(v) == v.isValid

\* the early return; `payload.accepted.network` is read outside any try block
settleRejected(pl, v) ==
  IF ~pl.accepted.present THEN Threw("settle")
  ELSE Returned("settle", NoVerify,
         NotSettled(IF v.invalidReason = "undefined" THEN "verification_failed"
                    ELSE v.invalidReason,
                    pl.accepted.network, v.payer))

\* the pool's account for a transaction: the one whose address is the
\* transaction's fee payer
poolAccount(signers, transaction) ==
  IF \E i \in 1..Len(signers) : fromString(signers[i]) = transaction.feePayerAddress
  THEN transaction.feePayerAddress
  ELSE fromString(signers[1])

\* sponsored or not: typeof req.extra?.feePayer === "string" in part_001,
\* req.extra?.sponsored === true in scheme.ts
isSponsoredSettle(snap, req) ==
  IF snap = "C" THEN req.extra.sponsored ELSE IsString(req.extra.feePayer)

submitCall(snap, req) ==
  IF isSponsoredSettle(snap, req) THEN "signAndSubmitAsFeePayer" ELSE "submitTransaction"

\* transaction.rawTransaction: what the sender signed
RawTransactionOf(transaction) ==
  [sender |-> transaction.sender, payloadKind |-> transaction.payloadKind,
   entryFunction |-> transaction.entryFunction,
   expiration_timestamp_secs |-> transaction.expiration_timestamp_secs]

\* what reaches the chain: the fee-payer address of the transaction, the
\* account whose fee-payer signature is attached (none on the plain path),
\* the raw transaction and the sender authenticator
SubmittedTxn(feePayerAddress, feePayerSigner, rawTransaction, senderAuthenticator) ==
  [feePayerAddress |-> feePayerAddress, feePayerSigner |-> feePayerSigner,
   rawTransaction |-> rawTransaction, senderAuthenticator |-> senderAuthenticator]
NotSubmitted == SubmittedTxn("none", "none", "none", "none")

\* the account behind this.signer: the signer of signer.ts closes over one
\* account; the pool of part_001 picks the account the transaction names as
\* fee payer
account(snap, signers, transaction) ==
  IF snap = "C" THEN fromString(signers[1])
  ELSE poolAccount(signers, transaction)

\* a fee payer that builds the transfer anew, with a later expiration, and
\* submits that
signAndSubmitRebuilt(signerAccount, transaction, senderAuthenticator) ==
  SubmittedTxn(signerAccount, signerAccount,
               [RawTransactionOf(transaction) EXCEPT !.expiration_timestamp_secs = @ + 1],
               senderAuthenticator)

\* signer.ts lines 132-154: the account sets itself as fee payer, signs as
\* fee payer and submits both signatures
signAndSubmitAsFeePayer(signerAccount, transaction, senderAuthenticator) ==
  SubmittedTxn(signerAccount, signerAccount, RawTransactionOf(transaction),
               senderAuthenticator)

\* signer.ts lines 156-166: the transaction is submitted as it came
submitTransaction(transaction, senderAuthenticator) ==
  SubmittedTxn(transaction.feePayerAddress, NoAddress, RawTransactionOf(transaction),
               senderAuthenticator)

submit(snap, signers, req, transaction, senderAuthenticator) ==
  IF isSponsoredSettle(snap, req)
  THEN signAndSubmitAsFeePayer(account(snap, signers, transaction), transaction,
                               senderAuthenticator)
  ELSE submitTransaction(transaction, senderAuthenticator)

\* the catch block of settle
settleFailed(pl, v) ==
  Returned("settle", NoVerify, NotSettled("transaction_failed", pl.accepted.network, v.payer))

settleSucceeded(pl, hash) ==
  Returned("settle", NoVerify,
           Settled(hash, pl.accepted.network, toString(pl.transaction.tx.sender).hex))

\* a settle that reports success whatever the wait did
settleIgnoringWait(pl, v, hash, out) == settleSucceeded(pl, hash)

\* the return after `await this.signer.waitForTransaction(...)`: a throw of
\* the wait lands in the catch block
settleAfterWait(pl, v, hash, out) ==
  IF out # "confirmed" THEN settleFailed(pl, v) ELSE settleSucceeded(pl, hash)

----------------------------------------------------------------------------
(* The payment attempts *)

EntryFunction(a) ==
  [address |-> a.modAddr, module |-> a.modName, function |-> a.fnName,
   type_args |-> a.typeArgs,
   args |-> SubSeq(<<a.arg0, a.arg1, a.arg2, U64Arg(0)>>, 1, a.nargs)]

Transaction(a) ==
  [sender |-> a.sender, feePayerAddress |-> a.txFeePayer,
   payloadKind |-> a.payloadKind, entryFunction |-> EntryFunction(a),
   expiration_timestamp_secs |-> a.expiration]

\* PaymentPayload; payload.payload.transaction is the encoded transaction and
\* sender authenticator
MkPayload(a) ==
  [x402Version |-> a.version,
   accepted |-> [present |-> a.accPresent, scheme |-> a.accScheme,
                 network |-> a.accNetwork, asset |-> a.accAsset,
                 payTo |-> a.accPayTo, amount |-> a.accAmount,
                 extra |-> [feePayer |-> a.accFeePayer]],
   shape |-> a.shape, authorizationFrom |-> a.from,
   transaction |-> [wellFormed |-> a.wellFormed, tx |-> Transaction(a),
                    senderAuthenticator |-> a.auth]]

\* PaymentRequirements
MkRequirements(a) ==
  [scheme |-> a.reqScheme, network |-> a.reqNetwork, asset |-> a.reqAsset,
   payTo |-> a.reqPayTo, amount |-> a.reqAmount,
   extra |-> [feePayer |-> a.reqFeePayer, sponsored |-> a.reqSponsored]]

\* a conforming sponsored payment: S pays 100 of A to R, F1 sponsors
SponsoredAttempt ==
  [version |-> 2, accPresent |-> TRUE, accScheme |-> "exact",
   accNetwork |-> "aptos:2", accAsset |-> Str(A), accPayTo |-> Str(R),
   accAmount |-> Dec(100), accFeePayer |-> Str(F1), shape |-> "aptos", from |-> "",
   wellFormed |-> TRUE, sender |-> S,
   txFeePayer |-> F1, payloadKind |-> "entryFunction", modAddr |-> ONE,
   modName |-> "primary_fungible_store", fnName |-> "transfer", typeArgs |-> 1,
   nargs |-> 3, arg0 |-> AddrArg(A), arg1 |-> AddrArg(R), arg2 |-> U64Arg(100),
   expiration |-> 1000, auth |-> "Ed25519",
   reqScheme |-> "exact", reqNetwork |-> "aptos:2", reqAsset |-> Str(A),
   reqPayTo |-> Str(R), reqAmount |-> Dec(100), reqFeePayer |-> Str(F1),
   reqSponsored |-> TRUE]

\* the same payment without a sponsor
PlainAttempt ==
  [SponsoredAttempt EXCEPT !.txFeePayer = NoAddress, !.reqFeePayer = Absent,
                           !.reqSponsored = FALSE, !.accFeePayer = Absent]

\* single-field departures from a conforming payment
Deviations ==
  {<<"version", 2>>, <<"version", 1>>, <<"accPresent", FALSE>>,
   <<"accScheme", "upto">>, <<"accNetwork", "aptos:1">>, <<"accNetwork", "eip155:1">>,
   <<"accAsset", Str(A2)>>, <<"accPayTo", Str(R2)>>, <<"accAmount", Dec(99)>>,
   <<"accFeePayer", Str(F2)>>,
   <<"reqScheme", "upto">>, <<"reqNetwork", "aptos:1">>, <<"reqNetwork", "eip155:1">>,
   <<"wellFormed", FALSE>>,
   <<"sender", F1>>, <<"sender", F2>>,
   <<"txFeePayer", NoAddress>>, <<"txFeePayer", F1>>, <<"txFeePayer", F2>>,
   <<"payloadKind", "script">>,
   <<"modAddr", TWO>>, <<"modName", "fungible_asset">>, <<"modName", "coin">>,
   <<"fnName", "withdraw">>,
   <<"typeArgs", 0>>, <<"typeArgs", 2>>, <<"nargs", 2>>, <<"nargs", 4>>,
   <<"arg0", AddrArg(A2)>>, <<"arg0", AddrArg(R)>>, <<"arg0", ShortArg>>,
   <<"arg1", AddrArg(R2)>>, <<"arg1", AddrArg(A)>>,
   <<"arg2", U64Arg(99)>>, <<"arg2", U64Arg(101)>>, <<"arg2", ShortArg>>,
   <<"expiration", 5>>, <<"expiration", 6>>, <<"expiration", 30>>, <<"expiration", 31>>,
   <<"auth", "MultiEd25519">>, <<"auth", "SingleKey">>, <<"auth", "MultiKey">>,
   <<"reqAsset", Str(A2)>>, <<"reqAsset", Mixed(A)>>, <<"reqAsset", BadStr>>,
   <<"reqPayTo", Str(R2)>>, <<"reqPayTo", Mixed(R)>>,
   <<"reqAmount", Dec(99)>>, <<"reqAmount", Padded(100)>>,
   <<"reqFeePayer", Absent>>, <<"reqFeePayer", Str(F1)>>, <<"reqFeePayer", Str(F2)>>,
   <<"reqFeePayer", Str(X)>>, <<"reqFeePayer", Mixed(F1)>>, <<"reqFeePayer", NonString>>,
   <<"reqSponsored", TRUE>>, <<"reqSponsored", FALSE>>}

Deviate(a, d) == [a EXCEPT ![d[1]] = d[2]]

\* every attempt that departs from a conforming one in at most two fields
Attempts ==
  {Deviate(Deviate(b, d1), d2) :
     b \in {SponsoredAttempt, PlainAttempt}, d1 \in Deviations, d2 \in Deviations}

\* what the chain adapter may answer
BalanceOutcomes ==
  {[threw |-> TRUE, amount |-> 0], [threw |-> FALSE, amount |-> 99],
   [threw |-> FALSE, amount |-> 100]}
SimulateOutcomes == {"success", "failed", "throw"}
SubmitOutcomes == Hashes \cup {"throw"}
\* waitForTransaction returns, or throws because the wait timed out, or
\* throws because the transaction failed on chain
WaitOutcomes == {"confirmed", "timeout", "failed"}

\* the signer pool of a snapshot: part_001 holds a pool (getAddresses), the
\* signer of scheme.ts / signer.ts a single account (getAddress)
SignerPool(snap) == IF snap = "C" THEN <<Str(F1)>> ELSE <<Str(F1), Str(F2)>>

----------------------------------------------------------------------------
(* Texts *)

\* A text is the sequence of its character codes.
Space == 32
Quote == 34
Dollar == 36
Plus == 43
Comma == 44
Minus == 45
Dot == 46
Colon == 58
LBracket == 91
RBracket == 93
LetterE == 101
LetterX == 120
LBrace == 123
RBrace == 125

IsDigit(c) == c \in 48..57
IsHexDigit(c) == c \in (48..57) \cup (65..70) \cup (97..102)

\* the decimal digits of a number
RECURSIVE DigitsOf(_)
DigitsOf(n) ==
  IF n < 10 THEN <<48 + n>> ELSE Append(DigitsOf(n \div 10), 48 + (n % 10))

\* m zeros, and the characters of a sequence of digits
Zeros(m) == [i \in 1..m |-> 48]
DigitChars(digits) == [i \in 1..Len(digits) |-> 48 + digits[i]]

RECURSIVE StripLeadingZeros(_)
StripLeadingZeros(digits) ==
  IF digits # <<>> /\ digits[1] = 0 THEN StripLeadingZeros(Tail(digits)) ELSE digits

RECURSIVE StripTrailingZeros(_)
StripTrailingZeros(digits) ==
  IF digits # <<>> /\ digits[Len(digits)] = 0
  THEN StripTrailingZeros(SubSeq(digits, 1, Len(digits) - 1)) ELSE digits

----------------------------------------------------------------------------
(* The server: ExactAptosScheme of part_002 (parsePrice)                    *)

\* A non-negative finite number is held by the digits d1..dk of its shortest
\* decimal (d1 and dk not 0, no digit for zero) and the exponent n:
\* 0.d1...dk * 10^n.
Num(digits, n) == [nan |-> FALSE, digits |-> digits, n |-> n]
NaN == [nan |-> TRUE, digits |-> <<>>, n |-> 0]

\* Number.prototype.toString(): decimal notation for 10^-7 <= x < 10^21,
\* exponential notation outside
numberToString(x) ==
  LET k == Len(x.digits)
      n == x.n
      d == DigitChars(x.digits)
      e == n - 1
      exponent == <<LetterE, IF e < 0 THEN Minus ELSE Plus>>
                    \o DigitsOf(IF e < 0 THEN 0 - e ELSE e)
  IN
  IF x.nan THEN <<78, 97, 78>>
  ELSE IF k = 0 THEN <<48>>
  ELSE IF k <= n /\ n <= 21 THEN d \o Zeros(n - k)
  ELSE IF 0 < n /\ n <= 21 THEN SubSeq(d, 1, n) \o <<Dot>> \o SubSeq(d, n + 1, k)
  ELSE IF -6 < n /\ n <= 0 THEN <<48, Dot>> \o Zeros(0 - n) \o d
  ELSE IF k = 1 THEN d \o exponent
  ELSE <<d[1], Dot>> \o SubSeq(d, 2, k) \o exponent

\* the digits that start at position i of a text
RECURSIVE DigitRun(_, _)
DigitRun(text, i) ==
  IF i <= Len(text) /\ IsDigit(text[i])
  THEN <<text[i] - 48>> \o DigitRun(text, i + 1) ELSE <<>>

\* parseFloat(text): the longest decimal literal the text starts with (the
\* prices carry neither sign nor exponent)
parseFloat(text) ==
  LET whole == DigitRun(text, 1)
      frac == IF Len(text) > Len(whole) /\ text[Len(whole) + 1] = Dot
              THEN DigitRun(text, Len(whole) + 2) ELSE <<>>
      significant == StripLeadingZeros(whole \o frac)
      leading == Len(whole \o frac) - Len(significant)
  IN
  IF whole \o frac = <<>> THEN NaN
  ELSE IF significant = <<>> THEN Num(<<>>, 0)
  ELSE Num(StripTrailingZeros(significant), Len(whole) - leading)

\* money.replace(/^\$/, "")
stripDollar(text) == IF text # <<>> /\ text[1] = Dollar THEN Tail(text) ELSE text

\* text.trim()
RECURSIVE trim(_)
trim(text) ==
  IF text # <<>> /\ text[1] = Space THEN trim(Tail(text))
  ELSE IF text # <<>> /\ text[Len(text)] = Space
  THEN trim(SubSeq(text, 1, Len(text) - 1))
  ELSE text

\* the values of Price: a number, a string, or an object
NumberPrice(x) ==
  [kind |-> "number", number |-> x, text |-> <<>>, hasAmount |-> FALSE,
   amount |-> <<>>, asset |-> [defined |-> FALSE, text |-> <<>>]]
StringPrice(text) == [NumberPrice(NaN) EXCEPT !.kind = "string", !.text = text]
ObjectPrice(hasAmount, amount, asset) ==
  [NumberPrice(NaN) EXCEPT !.kind = "object", !.hasAmount = hasAmount,
                           !.amount = amount, !.asset = asset]

\* what parsePrice or a parser returns: an AssetAmount, null, or undefined
AssetAmount(amount, asset) == [kind |-> "AssetAmount", amount |-> amount, asset |-> asset]
Null == [kind |-> "null", amount |-> <<>>, asset |-> <<>>]
UndefinedAmount == [kind |-> "undefined", amount |-> <<>>, asset |-> <<>>]
\* a parser that throws instead of answering
ParserThrows == [kind |-> "throws", amount |-> <<>>, asset |-> <<>>]

\* one run of parsePrice: what it returned (or that it threw) and the
\* parsers it called
PriceRan(value, calls) == [done |-> TRUE, threw |-> FALSE, value |-> value, calls |-> calls]
PriceThrew(calls) == [done |-> TRUE, threw |-> TRUE, value |-> Null, calls |-> calls]
NoPrice == [done |-> FALSE, threw |-> FALSE, value |-> Null, calls |-> <<>>]

\* part_002 lines 135-149
parseMoneyToDecimal(money) ==
  IF money.kind = "number" THEN money.number
  ELSE parseFloat(trim(stripDollar(money.text)))

\* amount.split("."): parts[0], and parts[1] when there is one
FirstDot(text) ==
  IF \E i \in 1..Len(text) : text[i] = Dot
  THEN CHOOSE i \in 1..Len(text) : text[i] = Dot /\ \A j \in 1..(i - 1) : text[j] # Dot
  ELSE Len(text) + 1

splitFirst(text) == SubSeq(text, 1, FirstDot(text) - 1)
splitSecond(text) ==
  LET rest == SubSeq(text, FirstDot(text) + 1, Len(text)) IN
  SubSeq(rest, 1, FirstDot(rest) - 1)

\* text.padEnd(n, "0").slice(0, n)
padEndSlice(text, n) ==
  SubSeq(text \o Zeros(IF Len(text) < n THEN n - Len(text) ELSE 0), 1, n)

\* BigInt(text) throws a SyntaxError unless the text is an integer literal
BigIntThrows(text) == \E i \in 1..Len(text) : ~IsDigit(text[i])

\* BigInt(text).toString()
BigIntToString(text) ==
  LET digits == StripLeadingZeros([i \in 1..Len(text) |-> text[i] - 48]) IN
  IF digits = <<>> THEN <<48>> ELSE DigitChars(digits)

\* part_002 lines 182-187; `threw` when BigInt rejects the text
convertToTokenAmount(amount, decimals) ==
  LET wholePart == IF splitFirst(amount) = <<>> THEN <<48>> ELSE splitFirst(amount)
      fractionalPart == padEndSlice(splitSecond(amount), decimals)
  IN
  IF BigIntThrows(wholePart \o fractionalPart) THEN [threw |-> TRUE, text |-> <<>>]
  ELSE [threw |-> FALSE, text |-> BigIntToString(wholePart \o fractionalPart)]

\* the default assets of part_002 lines 16 and 21, by their first digits
USDC_MAINNET_FA == <<48, LetterX, 98, 97, 101>>
USDC_TESTNET_FA == <<48, LetterX, 54, 57, 48>>

\* part_002 lines 160-173
defaultMoneyConversion(amount, net, calls) ==
  LET decimals == 6
      tokenAmount == convertToTokenAmount(numberToString(amount), decimals)
      asset == IF net = "aptos:2" THEN USDC_TESTNET_FA ELSE USDC_MAINNET_FA
  IN
  IF tokenAmount.threw THEN PriceThrew(Append(calls, 0))
  ELSE PriceRan(AssetAmount(tokenAmount.text, asset), Append(calls, 0))

\* a test of the 0x prefix alone
AddressPrefixOnly(text) == Len(text) >= 2 /\ text[1] = 48 /\ text[2] = LetterX

\* APTOS_ADDRESS_REGEX.test(text): /^0x[a-fA-F0-9]{64}$/
APTOS_ADDRESS_LENGTH == 64
APTOS_ADDRESS_REGEX(text) ==
  /\ Len(text) = 2 + APTOS_ADDRESS_LENGTH
  /\ text[1] = 48 /\ text[2] = LetterX
  /\ \A i \in 3..Len(text) : IsHexDigit(text[i])

\* a loop that calls every registered parser before it answers
RECURSIVE tryEveryParser(_, _, _, _, _)
tryEveryParser(parsers, i, amount, net, calls) ==
  LET every == [j \in 1..Len(parsers) |-> j]
      answering == {j \in 1..Len(parsers) : parsers[j] # Null}
      first == CHOOSE j \in answering : \A l \in answering : j <= l
  IN
  IF answering = {} THEN defaultMoneyConversion(amount, net, every)
  ELSE IF parsers[first] = ParserThrows THEN PriceThrew(every)
  ELSE PriceRan(parsers[first], every)

\* the loop of part_002 lines 78-83 from parser i on
RECURSIVE tryParsers(_, _, _, _, _)
tryParsers(parsers, i, amount, net, calls) ==
  IF i > Len(parsers) THEN defaultMoneyConversion(amount, net, calls)
  ELSE IF parsers[i] = ParserThrows THEN PriceThrew(Append(calls, i))
  ELSE IF parsers[i] # Null THEN PriceRan(parsers[i], Append(calls, i))
  ELSE tryParsers(parsers, i + 1, amount, net, Append(calls, i))

\* part_002 lines 56-87
parsePrice(parsers, p, net) ==
  IF p.kind = "object" /\ p.hasAmount
  THEN IF ~p.asset.defined \/ p.asset.text = <<>> THEN PriceThrew(<<>>)
       ELSE IF ~APTOS_ADDRESS_REGEX(p.asset.text) THEN PriceThrew(<<>>)
       ELSE PriceRan(AssetAmount(p.amount, p.asset.text), <<>>)
  ELSE IF p.kind = "object" THEN PriceThrew(<<>>)
  ELSE IF parseMoneyToDecimal(p).nan /\ p.kind = "string" THEN PriceThrew(<<>>)
  ELSE tryParsers(parsers, 1, parseMoneyToDecimal(p), net, <<>>)

\* the prices handed to parsePrice: numbers of at most MaxDigits digits over
\* DigitValues with an exponent between -MaxNegExponent and MaxExponent
MaxDigits == 3
DigitValues == {0, 1, 5}
MaxNegExponent == 8
MaxExponent == 23
MaxParsers == 2

Numbers ==
  {Num(<<>>, 0)} \cup
  {Num(d, n) : d \in {x \in UNION {[1..k -> DigitValues] : k \in 1..MaxDigits} :
                        x[1] # 0 /\ x[Len(x)] # 0},
               n \in (0 - MaxNegExponent)..MaxExponent}

\* "1.50", "$1.50", "$0.0000001", "0.0000019", " 2 ", "abc", the empty string, "$"
StringPrices ==
  {StringPrice(<<49, 46, 53, 48>>),
   StringPrice(<<36, 49, 46, 53, 48>>),
   StringPrice(<<36, 48, 46, 48, 48, 48, 48, 48, 48, 49>>),
   StringPrice(<<48, 46, 48, 48, 48, 48, 48, 49, 57>>),
   StringPrice(<<32, 50, 32>>),
   StringPrice(<<97, 98, 99>>),
   StringPrice(<<>>),
   StringPrice(<<36>>)}

\* asset texts: 0x and 64 hex digits in lower case and in mixed case, no
\* prefix, too short, too long, a letter that is no hex digit, empty
AssetTexts ==
  {<<48, LetterX>> \o [i \in 1..64 |-> 97],
   <<48, LetterX>> \o [i \in 1..64 |-> IF i % 2 = 0 THEN 65 ELSE 102],
   [i \in 1..64 |-> 48],
   <<48, LetterX, 49, 50, 51, 52>>,
   <<48, LetterX>> \o [i \in 1..65 |-> 97],
   <<48, LetterX, 71>> \o [i \in 1..63 |-> 48],
   <<>>}

ObjectPrices ==
  {ObjectPrice(TRUE, <<49, 48, 48, 48>>, [defined |-> TRUE, text |-> t]) : t \in AssetTexts}
  \cup {ObjectPrice(TRUE, <<49, 48, 48, 48>>, [defined |-> FALSE, text |-> <<>>]),
        ObjectPrice(FALSE, <<>>, [defined |-> TRUE, text |-> <<48, LetterX>> \o [i \in 1..64 |-> 97]])}

Prices == {NumberPrice(x) : x \in Numbers} \cup StringPrices \cup ObjectPrices

Networks == {"aptos:1", "aptos:2"}

\* what a registered parser answers: null, undefined, or an amount of its
\* own, or that it throws
MoneyParsers ==
  {Null, UndefinedAmount, ParserThrows,
   AssetAmount(<<55>>, <<48, LetterX, 49>>), AssetAmount(<<56>>, <<48, LetterX, 50>>)}

\* no parsePrice call was made
PriceAtRest ==
  /\ moneyParsers = <<>>
  /\ price = NumberPrice(NaN)
  /\ priceNetwork = "none"
  /\ parserCalls = <<>>
  /\ assetAmount = NoPrice

\* the values of PaymentRequirements.extra and of a supported kind's extra:
\* undefined, or an object whose keys hold a value or are not there
UndefinedExtra == [present |-> FALSE, feePayer |-> Absent, gasStation |-> Absent]
Extra(feePayer, gasStation) ==
  [present |-> TRUE, feePayer |-> feePayer, gasStation |-> gasStation]

\* { ...extra }: a new object with the keys of extra, none for undefined
spread(extra) ==
  IF "present" \in DOMAIN extra THEN [extra EXCEPT !.present = TRUE] ELSE extra

\* typeof supportedKind.extra?.feePayer === "string"
AdvertisesFeePayer(kind) == kind.extra.present /\ IsString(kind.extra.feePayer)

\* an enhancement that writes the fee payer into the object it was handed
enhanceInPlace(req, kind) ==
  LET written == IF AdvertisesFeePayer(kind)
                 THEN [req EXCEPT !.extra = [spread(@) EXCEPT !.feePayer = kind.extra.feePayer]]
                 ELSE req
  IN [input |-> written, result |-> written]

\* part_002 lines 102-126: the object handed in as the call leaves it, and
\* the object returned
enhancePaymentRequirements(req, kind) ==
  LET extra == spread(req.extra) IN
  [input |-> req,
   result |-> [req EXCEPT !.extra =
                 IF AdvertisesFeePayer(kind)
                 THEN [extra EXCEPT !.feePayer = kind.extra.feePayer]
                 ELSE extra]]

NotEnhanced == [done |-> FALSE, value |-> MkRequirements(PlainAttempt)]

EnhanceAtRest ==
  /\ baseRequirements = MkRequirements(PlainAttempt)
  /\ supportedKind = [x402Version |-> 2, scheme |-> "exact", network |-> "aptos:2",
                      extra |-> UndefinedExtra]
  /\ enhanced = NotEnhanced

ServerAtRest == PriceAtRest /\ EnhanceAtRest

\* part_002 lines 41-44
RegisterMoneyParser ==
  /\ Len(moneyParsers) < MaxParsers
  /\ \E parser \in MoneyParsers : moneyParsers' = Append(moneyParsers, parser)
  /\ UNCHANGED <<price, priceNetwork, parserCalls, assetAmount>>
  /\ UNCHANGED <<enhanceVars, nonServerVars>>

\* the server as constructed, about to be asked for a price on a network
ServerStart ==
  /\ moneyParsers = <<>>
  /\ price \in Prices
  /\ priceNetwork \in Networks
  /\ parserCalls = <<>>
  /\ assetAmount = NoPrice
  /\ EnhanceAtRest

\* a parsePrice call, from entry to return
ParsePrice ==
  /\ LET run == parsePrice(moneyParsers, price, priceNetwork) IN
       /\ parserCalls' = run.calls
       /\ assetAmount' = [run EXCEPT !.calls = <<>>]
  /\ UNCHANGED <<moneyParsers, price, priceNetwork>>
  /\ UNCHANGED <<enhanceVars, nonServerVars>>

NextServer == RegisterMoneyParser \/ ParsePrice

\* the requirements a resource server builds before it enhances them, and
\* the kinds a facilitator may advertise
BaseExtras ==
  {UndefinedExtra} \cup
  {Extra(f, g) : f \in {Absent, Str(F1), Str(F2)}, g \in {Absent, Str("url")}}

BaseRequirements ==
  {[scheme |-> "exact", network |-> "aptos:2", asset |-> Str(a), payTo |-> Str(R),
    amount |-> n, maxTimeoutSeconds |-> 60, extra |-> e] :
     a \in {A, A2}, n \in {Dec(100), Dec(99)}, e \in BaseExtras}

SupportedKinds ==
  {[x402Version |-> 2, scheme |-> "exact", network |-> "aptos:2", extra |-> e] :
     e \in {UndefinedExtra} \cup
            {Extra(f, Absent) : f \in {Absent, Str(F1), Str(F2), NonString}}}

EnhanceStart ==
  /\ PriceAtRest
  /\ baseRequirements \in BaseRequirements
  /\ supportedKind \in SupportedKinds
  /\ enhanced = NotEnhanced

\* an enhancePaymentRequirements call, from entry to return
EnhancePaymentRequirements ==
  /\ LET run == enhancePaymentRequirements(baseRequirements, supportedKind) IN
       /\ baseRequirements' = run.input
       /\ enhanced' = [done |-> TRUE, value |-> run.result]
  /\ UNCHANGED <<supportedKind, priceVars, nonServerVars>>

NextEnhance == EnhancePaymentRequirements

----------------------------------------------------------------------------
(* The payload codec: createAndSignPayment (part_003) encodes,              *)
(* deserializeAptosPayment (utils.ts) decodes                               *)

\* the longest byte sequences encoded, and the byte values they hold
MaxTransactionBytes == 4
MaxAuthenticatorBytes == 2
ByteValues == {0, 1, 200}

\* the byte sequences of at most n bytes
BytesUpTo(n) == UNION {[1..k -> ByteValues] : k \in 0..n}

\* "transaction" and "senderAuthenticator"
TransactionKey == <<116, 114, 97, 110, 115, 97, 99, 116, 105, 111, 110>>
SenderAuthenticatorKey ==
  <<115, 101, 110, 100, 101, 114, 65, 117, 116, 104, 101, 110, 116, 105, 99,
    97, 116, 111, 114>>

RECURSIVE ElementsText(_)
ElementsText(a) ==
  IF a = <<>> THEN <<>>
  ELSE IF Len(a) = 1 THEN DigitsOf(a[1])
  ELSE DigitsOf(a[1]) \o <<Comma>> \o ElementsText(Tail(a))

\* JSON.stringify of an array of numbers and of a key
ArrayText(a) == <<LBracket>> \o ElementsText(a) \o <<RBracket>>
StringText(k) == <<Quote>> \o k \o <<Quote>>

\* Array.from(bytes)
ArrayFrom(bytes) == bytes

\* JSON.stringify(aptosPayload): the members in the order they were written
stringify(aptosPayload) ==
  <<LBrace>> \o StringText(TransactionKey) \o <<Colon>>
    \o ArrayText(aptosPayload.transaction) \o <<Comma>>
    \o StringText(SenderAuthenticatorKey) \o <<Colon>>
    \o ArrayText(aptosPayload.senderAuthenticator) \o <<RBrace>>

\* Buffer.from(text): the UTF-8 bytes of a text
RECURSIVE utf8Bytes(_)
utf8Bytes(text) ==
  IF text = <<>> THEN <<>>
  ELSE (IF text[1] < 128 THEN <<text[1]>>
        ELSE <<192 + (text[1] \div 64), 128 + (text[1] % 64)>>)
       \o utf8Bytes(Tail(text))

\* buffer.toString("utf8"): a byte that starts no character becomes U+FFFD
utf8Text(bytes) ==
  [i \in 1..Len(bytes) |-> IF bytes[i] < 128 THEN bytes[i] ELSE 65533]

\* A base64 string is the sequence of the alphabet positions of its
\* characters, Pad standing for "=".
Pad == 64

\* buffer.toString("base64")
RECURSIVE toBase64(_)
toBase64(bytes) ==
  IF bytes = <<>> THEN <<>>
  ELSE IF Len(bytes) = 1
  THEN <<bytes[1] \div 4, (bytes[1] % 4) * 16, Pad, Pad>>
  ELSE IF Len(bytes) = 2
  THEN <<bytes[1] \div 4, (bytes[1] % 4) * 16 + (bytes[2] \div 16),
         (bytes[2] % 16) * 4, Pad>>
  ELSE <<bytes[1] \div 4, (bytes[1] % 4) * 16 + (bytes[2] \div 16),
         (bytes[2] % 16) * 4 + (bytes[3] \div 64), bytes[3] % 64>>
       \o toBase64(SubSeq(bytes, 4, Len(bytes)))

\* Buffer.from(string, "base64"): decoding stops at the padding
RECURSIVE fromBase64(_)
fromBase64(chars) ==
  IF Len(chars) < 2 \/ chars[1] = Pad \/ chars[2] = Pad THEN <<>>
  ELSE LET b1 == chars[1] * 4 + (chars[2] \div 16) IN
       IF Len(chars) < 3 \/ chars[3] = Pad THEN <<b1>>
       ELSE LET b2 == (chars[2] % 16) * 16 + (chars[3] \div 4) IN
            IF Len(chars) < 4 \/ chars[4] = Pad THEN <<b1, b2>>
            ELSE <<b1, b2, (chars[3] % 4) * 64 + chars[4]>>
                 \o fromBase64(SubSeq(chars, 5, Len(chars)))

\* JSON.parse, for an object whose members are arrays of numbers.  A parse
\* step returns what it read and the position after it, or fails.
Read(value, next) == [ok |-> TRUE, value |-> value, next |-> next]
SyntaxError == [ok |-> FALSE, value |-> <<>>, next |-> 0]

RECURSIVE ParseNumber(_, _, _)
ParseNumber(text, i, acc) ==
  IF i <= Len(text) /\ IsDigit(text[i])
  THEN ParseNumber(text, i + 1, acc * 10 + (text[i] - 48))
  ELSE Read(acc, i)

RECURSIVE ParseElements(_, _, _)
ParseElements(text, i, acc) ==
  IF i > Len(text) \/ ~IsDigit(text[i]) THEN SyntaxError
  ELSE LET n == ParseNumber(text, i, 0) IN
       IF n.next > Len(text) THEN SyntaxError
       ELSE IF text[n.next] = RBracket THEN Read(Append(acc, n.value), n.next + 1)
       ELSE IF text[n.next] = Comma
       THEN ParseElements(text, n.next + 1, Append(acc, n.value))
       ELSE SyntaxError

ParseArray(text, i) ==
  IF i + 1 > Len(text) \/ text[i] # LBracket THEN SyntaxError
  ELSE IF text[i + 1] = RBracket THEN Read(<<>>, i + 2)
  ELSE ParseElements(text, i + 1, <<>>)

RECURSIVE ParseKey(_, _, _)
ParseKey(text, i, acc) ==
  IF i > Len(text) THEN SyntaxError
  ELSE IF text[i] = Quote THEN Read(acc, i + 1)
  ELSE ParseKey(text, i + 1, Append(acc, text[i]))

RECURSIVE ParseMembers(_, _, _)
ParseMembers(text, i, acc) ==
  IF i > Len(text) \/ text[i] # Quote THEN SyntaxError
  ELSE LET k == ParseKey(text, i + 1, <<>>) IN
       IF ~k.ok \/ k.next > Len(text) \/ text[k.next] # Colon THEN SyntaxError
       ELSE LET v == ParseArray(text, k.next + 1)
                member == [key |-> k.value, value |-> v.value]
            IN
            IF ~v.ok \/ v.next > Len(text) THEN SyntaxError
            ELSE IF text[v.next] = RBrace
            THEN (IF v.next = Len(text) THEN Read(Append(acc, member), v.next + 1)
                  ELSE SyntaxError)
            ELSE IF text[v.next] = Comma
            THEN ParseMembers(text, v.next + 1, Append(acc, member))
            ELSE SyntaxError

parse(text) ==
  IF Len(text) < 2 \/ text[1] # LBrace THEN SyntaxError
  ELSE IF text[2] = RBrace THEN (IF Len(text) = 2 THEN Read(<<>>, 3) ELSE SyntaxError)
  ELSE ParseMembers(text, 2, <<>>)

\* parsed.<key>: the last member of that name, or undefined
Member(parsed, key) ==
  LET at == {i \in 1..Len(parsed) : parsed[i].key = key} IN
  IF at = {} THEN [defined |-> FALSE, value |-> <<>>]
  ELSE [defined |-> TRUE,
        value |-> parsed[CHOOSE i \in at : \A j \in at : j <= i].value]

\* Uint8Array.from(array)
Uint8ArrayFrom(array) == [i \in 1..Len(array) |-> array[i] % 256]

\* BCS, reduced in size: a raw transaction takes RawTransactionLen bytes, an
\* address AddressLen, a key with its signature KeyLen.
RawTransactionLen == 2
AddressLen == 1
KeyLen == 1
\* the variant indexes of AccountAuthenticator
AuthenticatorVariants == 0..3

NoFeePayer == <<>>

\* SimpleTransaction.deserialize: the raw transaction, the flag of the fee
\* payer, the fee payer if the flag is set; reading past the end throws, and
\* so does a flag that is neither 0 nor 1
SimpleTransactionDeserializeThrows(bytes) ==
  \/ Len(bytes) < RawTransactionLen + 1
  \/ bytes[RawTransactionLen + 1] \notin {0, 1}
  \/ /\ bytes[RawTransactionLen + 1] = 1
     /\ Len(bytes) < RawTransactionLen + 1 + AddressLen

SimpleTransactionDeserialize(bytes) ==
  [rawTransaction |-> SubSeq(bytes, 1, RawTransactionLen),
   feePayerAddress |->
     IF bytes[RawTransactionLen + 1] = 1
     THEN SubSeq(bytes, RawTransactionLen + 2, RawTransactionLen + 1 + AddressLen)
     ELSE NoFeePayer]

\* AccountAuthenticator.deserialize: the variant index, then the key material
AccountAuthenticatorDeserializeThrows(bytes) ==
  \/ Len(bytes) < 1
  \/ bytes[1] \notin AuthenticatorVariants
  \/ Len(bytes) < 1 + KeyLen

AccountAuthenticatorDeserialize(bytes) ==
  [variant |-> bytes[1], key |-> SubSeq(bytes, 2, 1 + KeyLen)]

\* transaction.bcsToBytes() and senderAuthenticator.bcsToBytes()
SimpleTransactionBytes(transaction) ==
  transaction.rawTransaction
    \o (IF transaction.feePayerAddress = NoFeePayer THEN <<0>>
        ELSE <<1>> \o transaction.feePayerAddress)

AccountAuthenticatorBytes(senderAuthenticator) ==
  <<senderAuthenticator.variant>> \o senderAuthenticator.key

\* the outcomes of a decoding
NoTransaction == [rawTransaction |-> <<>>, feePayerAddress |-> NoFeePayer]
NoAuthenticator == [variant |-> 0, key |-> <<>>]
NotDecoded ==
  [done |-> FALSE, threw |-> FALSE, transaction |-> NoTransaction,
   senderAuthenticator |-> NoAuthenticator]
DecodeThrew == [NotDecoded EXCEPT !.done = TRUE, !.threw = TRUE]
Decoded(transaction, senderAuthenticator) ==
  [done |-> TRUE, threw |-> FALSE, transaction |-> transaction,
   senderAuthenticator |-> senderAuthenticator]

\* part_003 lines 124-130
encodeAptosPayload(txBytes, authBytes) ==
  LET aptosPayload == [transaction |-> ArrayFrom(txBytes),
                       senderAuthenticator |-> ArrayFrom(authBytes)]
  IN toBase64(utf8Bytes(stringify(aptosPayload)))

\* utils.ts lines 14-31
deserializeAptosPayment(transactionBase64) ==
  LET parsed == parse(utf8Text(fromBase64(transactionBase64)))
      parsedTransaction == Member(parsed.value, TransactionKey)
      parsedAuthenticator == Member(parsed.value, SenderAuthenticatorKey)
      txBytes == Uint8ArrayFrom(parsedTransaction.value)
      authBytes == Uint8ArrayFrom(parsedAuthenticator.value)
  IN
  IF ~parsed.ok THEN DecodeThrew
  ELSE IF ~parsedTransaction.defined THEN DecodeThrew
  ELSE IF SimpleTransactionDeserializeThrows(txBytes) THEN DecodeThrew
  ELSE IF ~parsedAuthenticator.defined THEN DecodeThrew
  ELSE IF AccountAuthenticatorDeserializeThrows(authBytes) THEN DecodeThrew
  ELSE Decoded(SimpleTransactionDeserialize(txBytes),
               AccountAuthenticatorDeserialize(authBytes))

\* no encoding is under way
NotEncoded == <<Pad>>

CodecAtRest ==
  /\ transactionBytes = <<>>
  /\ authenticatorBytes = <<>>
  /\ base64Transaction = NotEncoded
  /\ decoded = NotDecoded

CodecStart ==
  /\ transactionBytes \in BytesUpTo(MaxTransactionBytes)
  /\ authenticatorBytes \in BytesUpTo(MaxAuthenticatorBytes)
  /\ base64Transaction = NotEncoded
  /\ decoded = NotDecoded

\* the client encodes the two byte sequences
Encode ==
  /\ base64Transaction = NotEncoded
  /\ base64Transaction' = encodeAptosPayload(transactionBytes, authenticatorBytes)
  /\ UNCHANGED <<transactionBytes, authenticatorBytes, decoded>>
  /\ UNCHANGED nonCodecVars

\* the facilitator decodes what the client sent
Decode ==
  /\ base64Transaction # NotEncoded
  /\ ~decoded.done
  /\ decoded' = deserializeAptosPayment(base64Transaction)
  /\ UNCHANGED <<transactionBytes, authenticatorBytes, base64Transaction>>
  /\ UNCHANGED nonCodecVars

\* what getExtra returns: undefined before any call, then an object that
\* may hold the keys feePayer and sponsored
ExtraData(hasFeePayer, feePayer, sponsored) ==
  [done |-> TRUE, hasFeePayer |-> hasFeePayer, feePayer |-> feePayer,
   sponsored |-> sponsored]
NotAdvertised == [ExtraData(FALSE, Absent, FALSE) EXCEPT !.done = FALSE]

\* an array in a caller's hands: `shared` when it is the very array the
\* signer holds, `mutated` once the caller wrote to it
NoArray == [held |-> FALSE, shared |-> FALSE, mutated |-> FALSE, items |-> <<>>]

PoolAtRest == advertised = NotAdvertised /\ callerArray = NoArray

\* getAptosNetwork(network): the SDK network, or the error thrown
Resolved(sdkNetwork) ==
  [done |-> TRUE, threw |-> FALSE, network |-> sdkNetwork, message |-> "", of |-> <<>>]
Unsupported(text) ==
  [done |-> TRUE, threw |-> TRUE, network |-> "none",
   message |-> "Unsupported Aptos network: ", of |-> text]
NotResolved == [Resolved("none") EXCEPT !.done = FALSE]

\* "aptos:1" and "aptos:2" (constants.ts lines 6 and 11)
APTOS_MAINNET_CAIP2 == <<97, 112, 116, 111, 115, Colon, 49>>
APTOS_TESTNET_CAIP2 == <<97, 112, 116, 111, 115, Colon, 50>>

\* a mapping that takes every unknown identifier for the devnet
getAptosNetworkOrDevnet(text) ==
  IF text = APTOS_MAINNET_CAIP2 THEN Resolved("mainnet")
  ELSE IF text = APTOS_TESTNET_CAIP2 THEN Resolved("testnet")
  ELSE Resolved("devnet")

\* constants.ts lines 30-39, contracts.ts lines 145-154
getAptosNetwork(text) ==
  IF text = APTOS_MAINNET_CAIP2 THEN Resolved("mainnet")
  ELSE IF text = APTOS_TESTNET_CAIP2 THEN Resolved("testnet")
  ELSE Unsupported(text)

\* a JavaScript value in a field of the requirements: undefined, a string
\* (its characters) or a number (its decimal digits)
Undefined == [kind |-> "undefined", text |-> <<>>]
StringOf(text) == [kind |-> "string", text |-> text]
NumberOf(digits) == [kind |-> "number", text |-> digits]

\* what a client call leaves behind: whether it threw and what, and whether
\* a transaction was built, signed and encoded on the way
ClientOutcome(threw, message, built, signed) ==
  [done |-> TRUE, threw |-> threw, message |-> message, built |-> built,
   signed |-> signed]
NotCalled == [ClientOutcome(FALSE, "", FALSE, FALSE) EXCEPT !.done = FALSE]
NoClientInput ==
  [accountAddress |-> Undefined, asset |-> Undefined, payTo |-> Undefined,
   amount |-> Undefined, gasStation |-> Undefined, network |-> <<>>,
   chainUp |-> FALSE]

ClientAtRest ==
  clientKind = "none" /\ clientInput = NoClientInput /\ clientCall = NotCalled

NetworkAtRest == networkId = <<>> /\ aptosNetwork = NotResolved

\* no settle call was made and the chain holds nothing of the payload
ReplayAtRest ==
  /\ settles = <<>>
  /\ mempool = {}
  /\ committed = "none"
  /\ commitCount = 0

\* no verify or settle call is under way
CallsAtRest ==
  /\ snapshot = "none"
  /\ signerAddresses = <<>>
  /\ payload = MkPayload(PlainAttempt)
  /\ requirements = MkRequirements(PlainAttempt)
  /\ now = 0
  /\ pc = "idle"
  /\ valid = NoVerify
  /\ pendingTxn = ""
  /\ log = <<>>
  /\ ret = NoCall
  /\ priorVerify = FALSE
  /\ submitted = NotSubmitted

\* nothing of the facilitator is in use
FacilitatorAtRest ==
  CallsAtRest /\ PoolAtRest /\ ReplayAtRest /\ NetworkAtRest /\ ClientAtRest

NextCodec == Encode \/ Decode

\* the codec alone: facilitator and server at rest
InitCodec == CodecStart /\ FacilitatorAtRest /\ ServerAtRest

SpecCodec == InitCodec /\ [][NextCodec]_vars

\* the server alone: facilitator and codec at rest
InitServer == ServerStart /\ FacilitatorAtRest /\ CodecAtRest

SpecServer == InitServer /\ [][NextServer]_vars

InitEnhance == EnhanceStart /\ FacilitatorAtRest /\ CodecAtRest

SpecEnhance == InitEnhance /\ [][NextEnhance]_vars

\* the identifiers handed to getAptosNetwork: a namespace, a separator and
\* a reference, each of which may be missing
Namespaces ==
  {<<97, 112, 116, 111, 115>>, <<65, 112, 116, 111, 115>>,
   <<101, 105, 112, 49, 53, 53>>, <<115, 111, 108, 97, 110, 97>>, <<>>}
Separators == {<<Colon>>, <<Minus>>, <<>>}
References ==
  {<<49>>, <<50>>, <<51>>, <<57, 57>>, <<48, 49>>,
   <<109, 97, 105, 110, 110, 101, 116>>, <<116, 101, 115, 116, 110, 101, 116>>, <<>>}
NetworkIds ==
  {ns \o sep \o ref : ns \in Namespaces, sep \in Separators, ref \in References}

InitNetwork ==
  /\ networkId \in NetworkIds
  /\ aptosNetwork = NotResolved
  /\ CallsAtRest /\ PoolAtRest /\ ReplayAtRest /\ ClientAtRest
  /\ CodecAtRest
  /\ ServerAtRest

\* a getAptosNetwork call
GetAptosNetwork ==
  /\ aptosNetwork' = getAptosNetwork(networkId)
  /\ UNCHANGED <<networkId, facilitatorVars, codecVars, serverVars, poolVars, replayVars,
                 clientVars>>

NextNetwork == GetAptosNetwork

SpecNetwork == InitNetwork /\ [][NextNetwork]_vars

----------------------------------------------------------------------------
(* The client: createPaymentPayload and createAndSignPayment *)

\* !v
Falsy(v) ==
  \/ v.kind = "undefined"
  \/ v.kind = "string" /\ v.text = <<>>
  \/ v.kind = "number" /\ v.text = <<48>>

\* /^[0-9]+$/
DecimalRegex(text) == Len(text) >= 1 /\ \A i \in 1..Len(text) : IsDigit(text[i])

ClientThrew(message) == ClientOutcome(TRUE, message, FALSE, FALSE)

\* v.match(regex) on a value that is no string
MatchIsNotAFunction == ClientThrew("TypeError: match is not a function")

\* the build asks the chain for the sequence number and the gas price; the
\* signature and the encoding are local
buildSignEncode(input) ==
  IF ~input.chainUp THEN ClientThrew("build failed")
  ELSE ClientOutcome(FALSE, "", TRUE, TRUE)

\* the checks both clients make of the signer and the requirements, in the
\* order of the code; "" when every check passes
validationError(input, amountRequired, amountNumber) ==
  IF Falsy(input.accountAddress) THEN "Aptos account address is required"
  ELSE IF Falsy(input.asset) THEN "Asset is required"
  ELSE IF input.asset.kind # "string" THEN MatchIsNotAFunction.message
  ELSE IF ~APTOS_ADDRESS_REGEX(input.asset.text) THEN "Invalid asset address"
  ELSE IF Falsy(input.payTo) THEN "Pay-to address is required"
  ELSE IF input.payTo.kind # "string" THEN MatchIsNotAFunction.message
  ELSE IF ~APTOS_ADDRESS_REGEX(input.payTo.text) THEN "Invalid pay-to address"
  ELSE IF Falsy(input.amount) THEN amountRequired
  ELSE IF input.amount.kind # "string" THEN MatchIsNotAFunction.message
  ELSE IF ~DecimalRegex(input.amount.text) THEN amountNumber
  ELSE ""

\* a client that builds whatever it is given
clientWithoutChecks(input) ==
  IF getAptosNetwork(input.network).threw THEN ClientThrew("Unsupported Aptos network: ")
  ELSE buildSignEncode(input)

\* scheme.ts lines 323-400
createPaymentPayloadCall(input) ==
  LET invalid == validationError(input, "Amount is required", "Amount must be a number")
  IN
  IF invalid # "" THEN ClientThrew(invalid)
  ELSE IF getAptosNetwork(input.network).threw THEN ClientThrew("Unsupported Aptos network: ")
  ELSE buildSignEncode(input)

\* part_003 lines 44-139
createAndSignPaymentCall(input) ==
  LET invalid == validationError(input, "Max amount required is required",
                                 "Max amount required must be a number")
  IN
  IF getAptosNetwork(input.network).threw THEN ClientThrew("Unsupported Aptos network: ")
  ELSE IF invalid # "" THEN ClientThrew(invalid)
  ELSE IF ~Falsy(input.gasStation)
  THEN ClientThrew("Sponsored transactions via gas station are not yet implemented for Aptos. ")
  ELSE buildSignEncode(input)

GoodAddress == <<48, LetterX>> \o [i \in 1..APTOS_ADDRESS_LENGTH |-> 97]
ClientAddresses ==
  {Undefined, StringOf(<<>>), StringOf(GoodAddress),
   StringOf(<<48, LetterX, 49, 50, 51, 52>>), NumberOf(<<53>>)}
ClientRecipients ==
  {Undefined, StringOf(GoodAddress),
   StringOf([i \in 1..(2 + APTOS_ADDRESS_LENGTH) |-> 48])}
ClientAmounts ==
  {Undefined, StringOf(<<>>), StringOf(<<48>>), StringOf(<<49, 48, 48>>),
   StringOf(<<49, LetterX>>), StringOf(<<Minus, 49>>), StringOf(<<49, Dot, 53>>),
   StringOf(<<Space, 49>>), NumberOf(<<49, 48, 48>>), NumberOf(<<48>>)}
GasStations == {Undefined, StringOf(<<>>), StringOf(<<104, 116, 116, 112>>)}
ClientNetworks == {APTOS_MAINNET_CAIP2, <<97, 112, 116, 111, 115, Minus, 49>>}
ClientInputs ==
  [accountAddress : {Undefined, StringOf(GoodAddress)},
   asset : ClientAddresses, payTo : ClientRecipients, amount : ClientAmounts,
   gasStation : GasStations, network : ClientNetworks, chainUp : BOOLEAN]

InitClient ==
  /\ clientKind \in {"scheme", "legacy"}
  /\ clientInput \in ClientInputs
  /\ clientCall = NotCalled
  /\ CallsAtRest /\ PoolAtRest /\ ReplayAtRest /\ NetworkAtRest
  /\ CodecAtRest
  /\ ServerAtRest

\* a call of ExactAptosScheme.createPaymentPayload
CreatePaymentPayload ==
  /\ clientKind = "scheme"
  /\ ~clientCall.done
  /\ clientCall' = createPaymentPayloadCall(clientInput)
  /\ UNCHANGED <<clientKind, clientInput, facilitatorVars, codecVars, serverVars,
                 poolVars, replayVars, networkVars>>

\* a call of the legacy createAndSignPayment
CreateAndSignPayment ==
  /\ clientKind = "legacy"
  /\ ~clientCall.done
  /\ clientCall' = createAndSignPaymentCall(clientInput)
  /\ UNCHANGED <<clientKind, clientInput, facilitatorVars, codecVars, serverVars,
                 poolVars, replayVars, networkVars>>

NextClient == CreatePaymentPayload \/ CreateAndSignPayment

SpecClient == InitClient /\ [][NextClient]_vars

----------------------------------------------------------------------------
(* The facilitator as a state machine *)

Init ==
  /\ snapshot \in {"A", "B", "C"}
  /\ signerAddresses = SignerPool(snapshot)
  /\ \E a \in Attempts : payload = MkPayload(a) /\ requirements = MkRequirements(a)
  /\ now = 0
  /\ pc = "idle"
  /\ valid = NoVerify
  /\ pendingTxn = ""
  /\ log = <<>>
  /\ ret = NoCall
  /\ priorVerify = FALSE
  /\ submitted = NotSubmitted
  /\ CodecAtRest
  /\ ServerAtRest
  /\ PoolAtRest
  /\ ReplayAtRest
  /\ NetworkAtRest
  /\ ClientAtRest

\* the runs verify can take on the attempt, one per answer of the chain
VerifyRuns ==
  {verify(snapshot, payload, requirements, signerAddresses, now, bal, sim) :
     bal \in BalanceOutcomes, sim \in SimulateOutcomes}

\* a verify call, from entry to return
Verify ==
  /\ pc = "idle"
  /\ \E r \in VerifyRuns :
       /\ ret' = IF r.threw THEN Threw("verify") ELSE Returned("verify", r.resp, NoSettle)
       /\ log' = r.calls
       /\ priorVerify' = (priorVerify \/ r.resp.isValid)
  /\ UNCHANGED <<snapshot, signerAddresses, payload, requirements, now, pc, valid, pendingTxn, submitted>>
  /\ UNCHANGED nonFacilitatorVars

\* settle up to its first decision: `valid = await this.verify(...)`, then
\* the early return or the way on to submission
SettleVerify ==
  /\ pc = "idle"
  /\ \E r \in VerifyRuns :
       /\ valid' = r.resp
       /\ log' = r.calls
       /\ IF r.threw
          THEN pc' = "idle" /\ ret' = Threw("settle")
          ELSE IF settleProceeds(r.resp)
          THEN pc' = "submit" /\ ret' = NoCall
          ELSE pc' = "idle" /\ ret' = settleRejected(payload, r.resp)
  /\ pendingTxn' = ""
  /\ submitted' = NotSubmitted
  /\ UNCHANGED <<snapshot, signerAddresses, payload, requirements, now, priorVerify>>
  /\ UNCHANGED nonFacilitatorVars

\* settle: decode again, pick the path, submit
SettleSubmit ==
  /\ pc = "submit"
  /\ IF deserializeAptosPaymentThrows(payload.transaction)
     THEN /\ pc' = "idle" /\ ret' = settleFailed(payload, valid)
          /\ UNCHANGED <<log, pendingTxn, submitted>>
     ELSE \E out \in SubmitOutcomes :
            /\ submitted' = submit(snapshot, signerAddresses, requirements,
                                   payload.transaction.tx,
                                   payload.transaction.senderAuthenticator)
            /\ log' = IF out = "throw"
                      THEN log \o <<submitCall(snapshot, requirements), "threw">>
                      ELSE Append(log, submitCall(snapshot, requirements))
            /\ IF out = "throw"
               THEN pc' = "idle" /\ ret' = settleFailed(payload, valid) /\ pendingTxn' = ""
               ELSE pc' = "wait" /\ ret' = NoCall /\ pendingTxn' = out
  /\ UNCHANGED <<snapshot, signerAddresses, payload, requirements, now, valid, priorVerify>>
  /\ UNCHANGED nonFacilitatorVars

\* settle: wait for confirmation, return
SettleWait ==
  /\ pc = "wait"
  /\ \E out \in WaitOutcomes :
       /\ log' = IF out # "confirmed" THEN log \o <<"waitForTransaction", out>>
                 ELSE Append(log, "waitForTransaction")
       /\ ret' = settleAfterWait(payload, valid, pendingTxn, out)
  /\ pc' = "idle"
  /\ UNCHANGED <<snapshot, signerAddresses, payload, requirements, now, valid, pendingTxn, priorVerify, submitted>>
  /\ UNCHANGED nonFacilitatorVars

\* time passes
Tick ==
  /\ now < MaxNow
  /\ now' = now + 1
  /\ UNCHANGED <<snapshot, signerAddresses, payload, requirements, pc, valid, pendingTxn, log, ret, priorVerify, submitted>>
  /\ UNCHANGED nonFacilitatorVars

Next == Verify \/ SettleVerify \/ SettleSubmit \/ SettleWait \/ Tick

Spec == Init /\ [][Next]_vars

----------------------------------------------------------------------------
(* The signer pool: getExtra and getSigners of the facilitator, the server  *)
(* enhancing its requirements from what getExtra advertised                 *)

\* a caller's array holds at most this many items
MaxArrayLen == 3

\* Math.floor(Math.random() * n): any index below n, and 0 when n is 0
RandomIndexes(n) == IF n = 0 THEN {0} ELSE 0..(n - 1)

\* addresses[i]: undefined past the end of the array
At(addresses, i) == IF i + 1 <= Len(addresses) THEN addresses[i + 1] ELSE Absent

\* part_001 lines 427-431 (and 36-40); scheme.ts lines 34-38
getExtra(snap, addresses, randomIndex) ==
  IF snap = "C" THEN ExtraData(FALSE, Absent, TRUE)
  ELSE ExtraData(TRUE, At(addresses, randomIndex), FALSE)

\* a getSigners that hands out the array the signer holds
getSignersShared(addresses) ==
  [held |-> TRUE, shared |-> TRUE, mutated |-> FALSE, items |-> addresses]

\* part_001 lines 439-441 (and 52-54), scheme.ts lines 46-48: a new array
getSigners(addresses) ==
  [held |-> TRUE, shared |-> FALSE, mutated |-> FALSE, items |-> addresses]

\* the pools a facilitator may be constructed with: part_001 takes the
\* addresses of its signer, scheme.ts the one address of an account
Pools(snap) ==
  IF snap = "C" THEN {<<Str(F1)>>} ELSE {<<>>, <<Str(F1)>>, <<Str(F1), Str(F2)>>}

\* what a caller can do to an array: push, pop, reverse
Mutations(items) ==
  {Append(items, Str(X)) : n \in {m \in {1} : Len(items) < MaxArrayLen}}
  \cup {SubSeq(items, 1, Len(items) - 1) : n \in {m \in {1} : items # <<>>}}
  \cup {[i \in 1..Len(items) |-> items[Len(items) + 1 - i]]}

InitPool ==
  /\ snapshot \in {"A", "B", "C"}
  /\ signerAddresses \in Pools(snapshot)
  /\ payload = MkPayload(PlainAttempt)
  /\ requirements = MkRequirements(PlainAttempt)
  /\ now = 0
  /\ pc = "idle"
  /\ valid = NoVerify
  /\ pendingTxn = ""
  /\ log = <<>>
  /\ ret = NoCall
  /\ priorVerify = FALSE
  /\ submitted = NotSubmitted
  /\ CodecAtRest
  /\ ServerAtRest
  /\ PoolAtRest
  /\ ReplayAtRest
  /\ NetworkAtRest
  /\ ClientAtRest

\* a getExtra call
GetExtra ==
  /\ \E randomIndex \in RandomIndexes(Len(signerAddresses)) :
       advertised' = getExtra(snapshot, signerAddresses, randomIndex)
  /\ UNCHANGED <<callerArray, facilitatorVars, codecVars, serverVars, replayVars, networkVars, clientVars>>

\* a getSigners call; the caller keeps what it returned
GetSigners ==
  /\ callerArray' = getSigners(signerAddresses)
  /\ UNCHANGED <<advertised, facilitatorVars, codecVars, serverVars, replayVars, networkVars, clientVars>>

\* the caller writes to the array it holds; the write lands in the signer's
\* array when the two are one
CallerMutates ==
  /\ callerArray.held
  /\ \E items \in Mutations(callerArray.items) \ {callerArray.items} :
       /\ callerArray' = [callerArray EXCEPT !.items = items, !.mutated = TRUE]
       /\ signerAddresses' = IF callerArray.shared THEN items ELSE signerAddresses
  /\ UNCHANGED <<snapshot, payload, requirements, now, pc, valid, pendingTxn, log,
                 ret, priorVerify, submitted>>
  /\ UNCHANGED <<advertised, codecVars, serverVars, replayVars, networkVars, clientVars>>

\* the server enhances its requirements with what getExtra advertised, and
\* the client builds the payment those requirements ask for
EnhanceAndPay ==
  /\ advertised.done
  /\ pc = "idle"
  /\ LET kind == [x402Version |-> 2, scheme |-> "exact", network |-> "aptos:2",
                  extra |-> [present |-> TRUE, feePayer |-> advertised.feePayer]]
         req == enhancePaymentRequirements(MkRequirements(PlainAttempt), kind).result
         feePayer == req.extra.feePayer
         attempt == IF IsString(feePayer)
                    THEN [SponsoredAttempt EXCEPT !.txFeePayer = feePayer.hex,
                                                  !.accFeePayer = feePayer]
                    ELSE PlainAttempt
     IN /\ requirements' = req
        /\ payload' = MkPayload(attempt)
  /\ UNCHANGED <<snapshot, signerAddresses, now, pc, valid, pendingTxn, log, ret,
                 priorVerify, submitted>>
  /\ UNCHANGED nonFacilitatorVars

NextPool ==
  \/ GetExtra \/ GetSigners \/ CallerMutates \/ EnhanceAndPay
  \/ Verify \/ SettleVerify \/ SettleSubmit \/ SettleWait

SpecPool == InitPool /\ [][NextPool]_vars

----------------------------------------------------------------------------
(* Settle calls on one payload, one after another or interleaved, against   *)
(* a chain that protects the sender's sequence number                       *)

\* the settle calls made on the payload
MaxSettles == 2

\* the hash of a submitted transaction: fixed by the signed bytes, which
\* differ only in the fee-payer signature attached
TransactionHash(sent) ==
  IF sent.feePayerSigner = F1 THEN "0xh1"
  ELSE IF sent.feePayerSigner = F2 THEN "0xh2"
  ELSE "0xh0"

\* what the chain answers a simulation: a sequence number already used fails
SimulateOutcomesAt(done) == IF done # "none" THEN {"failed", "throw"} ELSE SimulateOutcomes

\* what waitForTransaction(hash) answers: it returns only for a committed hash
WaitOutcomesAt(done, hash) ==
  IF done = hash THEN {"confirmed", "timeout"} ELSE {"timeout", "failed"}

\* the chain commits a transaction only if the sequence number is unused
chainAccepts(done) == done = "none"

\* a chain that commits whatever it took in
chainAcceptsAll(done) == TRUE

\* one settle call: its position, `valid`, `pendingTxn.hash`, its response,
\* whether it began after the commit, and the submissions it made
NewSettle(late) ==
  [pc |-> "verify", valid |-> NoVerify, pendingTxn |-> "", ret |-> NoCall,
   afterCommit |-> late, submissions |-> 0]

ReplayAttempts ==
  {SponsoredAttempt, PlainAttempt,
   [SponsoredAttempt EXCEPT !.txFeePayer = F2, !.reqFeePayer = Str(F2),
                            !.accFeePayer = Str(F2)],
   [SponsoredAttempt EXCEPT !.arg2 = U64Arg(99)]}

InitReplay ==
  /\ snapshot \in {"A", "B", "C"}
  /\ signerAddresses = SignerPool(snapshot)
  /\ \E a \in ReplayAttempts : payload = MkPayload(a) /\ requirements = MkRequirements(a)
  /\ now = 0
  /\ pc = "idle"
  /\ valid = NoVerify
  /\ pendingTxn = ""
  /\ log = <<>>
  /\ ret = NoCall
  /\ priorVerify = FALSE
  /\ submitted = NotSubmitted
  /\ CodecAtRest
  /\ ServerAtRest
  /\ PoolAtRest
  /\ ReplayAtRest
  /\ NetworkAtRest
  /\ ClientAtRest

\* a settle call begins
ReplayStart ==
  /\ Len(settles) < MaxSettles
  /\ settles' = Append(settles, NewSettle(committed # "none"))
  /\ UNCHANGED <<mempool, committed, commitCount>>
  /\ UNCHANGED <<facilitatorVars, codecVars, serverVars, poolVars, networkVars, clientVars>>

\* settle up to its first decision: the re-verify, then the early return or
\* the way on to submission
ReplayVerify(c) ==
  /\ settles[c].pc = "verify"
  /\ \E bal \in BalanceOutcomes, sim \in SimulateOutcomesAt(committed) :
       LET r == verify(snapshot, payload, requirements, signerAddresses, now, bal, sim) IN
       settles' = [settles EXCEPT ![c] =
         IF r.threw THEN [@ EXCEPT !.pc = "done", !.ret = Threw("settle")]
         ELSE IF settleProceeds(r.resp) THEN [@ EXCEPT !.pc = "submit", !.valid = r.resp]
         ELSE [@ EXCEPT !.pc = "done", !.valid = r.resp,
                        !.ret = settleRejected(payload, r.resp)]]
  /\ UNCHANGED <<mempool, committed, commitCount>>
  /\ UNCHANGED <<facilitatorVars, codecVars, serverVars, poolVars, networkVars, clientVars>>

\* settle: decode again, pick the path, submit; the chain takes the
\* transaction in or the submission throws
ReplaySubmit(c) ==
  /\ settles[c].pc = "submit"
  /\ IF deserializeAptosPaymentThrows(payload.transaction)
     THEN /\ settles' = [settles EXCEPT ![c] =
                 [@ EXCEPT !.pc = "done", !.ret = settleFailed(payload, @.valid)]]
          /\ UNCHANGED mempool
     ELSE LET hash == TransactionHash(submit(snapshot, signerAddresses, requirements,
                                             payload.transaction.tx,
                                             payload.transaction.senderAuthenticator))
          IN \E taken \in BOOLEAN :
               /\ settles' = [settles EXCEPT ![c] =
                    IF taken
                    THEN [@ EXCEPT !.pc = "wait", !.pendingTxn = hash,
                                   !.submissions = @ + 1]
                    ELSE [@ EXCEPT !.pc = "done", !.submissions = @ + 1,
                                   !.ret = settleFailed(payload, settles[c].valid)]]
               /\ mempool' = IF taken THEN mempool \cup {hash} ELSE mempool
  /\ UNCHANGED <<committed, commitCount>>
  /\ UNCHANGED <<facilitatorVars, codecVars, serverVars, poolVars, networkVars, clientVars>>

\* the chain executes a transaction it took in
ChainCommits ==
  /\ \E hash \in mempool :
       /\ chainAccepts(committed)
       /\ committed' = hash
       /\ commitCount' = commitCount + 1
       /\ mempool' = mempool \ {hash}
  /\ UNCHANGED settles
  /\ UNCHANGED <<facilitatorVars, codecVars, serverVars, poolVars, networkVars, clientVars>>

\* settle: wait for confirmation, return
ReplayWait(c) ==
  /\ settles[c].pc = "wait"
  /\ \E out \in WaitOutcomesAt(committed, settles[c].pendingTxn) :
       settles' = [settles EXCEPT ![c] =
         [@ EXCEPT !.pc = "done",
                   !.ret = settleAfterWait(payload, settles[c].valid,
                                           settles[c].pendingTxn, out)]]
  /\ UNCHANGED <<mempool, committed, commitCount>>
  /\ UNCHANGED <<facilitatorVars, codecVars, serverVars, poolVars, networkVars, clientVars>>

NextReplay ==
  \/ ReplayStart
  \/ \E c \in 1..Len(settles) : ReplayVerify(c)
  \/ \E c \in 1..Len(settles) : ReplaySubmit(c)
  \/ ChainCommits
  \/ \E c \in 1..Len(settles) : ReplayWait(c)

SpecReplay == InitReplay /\ [][NextReplay]_vars


----------------------------------------------------------------------------
(* The legacy orchestrator (facilitator.ts) with the legacy Aptos verify    *)
(* (part_006) and settle (part_004)                                         *)

SupportedEVMNetworks ==
  {"abstract", "abstract-testnet", "base-sepolia", "base", "avalanche-fuji",
   "avalanche", "iotex", "sei", "sei-testnet", "polygon", "polygon-amoy",
   "peaq", "story"}
SupportedSVMNetworks == {"solana-devnet", "solana"}
SupportedAptosNetworks == {"aptos-mainnet", "aptos-testnet"}

isAptosNetwork(network) == network \in SupportedAptosNetworks

\* what a legacy call did: it returned or threw, and the chain calls it made
Outcome(r, calls) == [ret |-> r, calls |-> calls]

InvalidPayment(payer) == Invalid("invalid_payment", payer)

\* `payload.accepted || paymentRequirements`: the record the checks read
effectiveRequirements(pl, paymentRequirements) ==
  IF pl.accepted.present
  THEN [scheme |-> pl.accepted.scheme, network |-> pl.accepted.network,
        asset |-> pl.accepted.asset, payTo |-> pl.accepted.payTo,
        amount |-> pl.accepted.amount, extra |-> paymentRequirements.extra]
  ELSE paymentRequirements

\* the function test of part_006 lines 85-96, which returns invalid_payment
\* when the function IS 0x1::primary_fungible_store::transfer
legacyFunctionRejected(entryFunction) == isPrimaryFungibleStore(entryFunction)

\* the public key the legacy verify hands to simulate (part_006 lines
\* 163-172): MultiEd25519 has a branch of its own
legacyPublicKeyOf(senderAuthenticator) ==
  IF senderAuthenticator \in {"Ed25519", "MultiEd25519", "SingleKey", "MultiKey"}
  THEN senderAuthenticator ELSE "undefined"

\* verify of the legacy Aptos scheme (part_006 lines 36-216)
verifyExactAptosBody(pl, paymentRequirements, sim) ==
  LET req == effectiveRequirements(pl, paymentRequirements)
      transaction == pl.transaction.tx
      senderAddress == toString(transaction.sender).hex
      entryFunction == transaction.entryFunction
      args == entryFunction.args
  IN
  IF pl.shape # "aptos" THEN Raised(<<>>)
  ELSE IF getAptosNetworkThrows(req.network) THEN Raised(<<>>)
  ELSE IF deserializeAptosPaymentThrows(pl.transaction) THEN Raised(<<>>)
  ELSE IF ~hasEntryFunction(transaction) THEN Ran(InvalidPayment(senderAddress), <<>>)
  ELSE IF legacyFunctionRejected(entryFunction) THEN Ran(InvalidPayment(senderAddress), <<>>)
  ELSE IF ~typeArgsOk(entryFunction) THEN Ran(InvalidPayment(senderAddress), <<>>)
  ELSE IF ~argsOk(entryFunction) THEN Ran(InvalidPayment(senderAddress), <<>>)
  ELSE IF fromBytesThrows(args[1]) \/ fromStringThrows(req.asset) THEN Raised(<<>>)
  ELSE IF ~assetMatches(args[1], req) THEN Ran(InvalidPayment(senderAddress), <<>>)
  ELSE IF fromBytesThrows(args[2]) \/ fromStringThrows(req.payTo) THEN Raised(<<>>)
  ELSE IF ~recipientMatches(args[2], req) THEN Ran(InvalidPayment(senderAddress), <<>>)
  ELSE IF deserializeU64Throws(args[3]) THEN Raised(<<>>)
  ELSE IF ~amountMatches(args[3], req) THEN Ran(InvalidPayment(senderAddress), <<>>)
  ELSE IF sim # "success" THEN Ran(InvalidPayment(senderAddress), simulateCall(legacyPublicKeyOf(pl.transaction.senderAuthenticator)))
  ELSE Ran(Valid(senderAddress), simulateCall(legacyPublicKeyOf(pl.transaction.senderAuthenticator)))

verifyExactAptos(pl, paymentRequirements, sim) ==
  catch(verifyExactAptosBody(pl, paymentRequirements, sim),
        Invalid("unexpected_verify_error", "undefined"))

\* settle of the legacy Aptos scheme (part_004 lines 31-94): decode, submit,
\* wait; everything inside one try block
settleExactAptos(pl, paymentRequirements, pending, waited) ==
  LET caught == NotSettled("unexpected_settle_error", paymentRequirements.network, "undefined")
      senderAddress == toString(pl.transaction.tx.sender).hex
  IN
  IF pl.shape # "aptos" \/ deserializeAptosPaymentThrows(pl.transaction)
  THEN Outcome(Returned("settle", NoVerify, caught), <<>>)
  ELSE IF pending = "throw"
  THEN Outcome(Returned("settle", NoVerify, caught), <<"submit">>)
  ELSE IF waited # "confirmed"
  THEN Outcome(Returned("settle", NoVerify, caught), <<"submit", "waitForTransaction">>)
  ELSE Outcome(Returned("settle", NoVerify,
                        Settled(pending, paymentRequirements.network, senderAddress)),
               <<"submit", "waitForTransaction">>)

\* `(payload.payload as ExactEvmPayload).authorization.from`: a TypeError
\* when the payload has no authorization
readsAuthorization(pl, paymentRequirements) ==
  paymentRequirements.network \in SupportedEVMNetworks

hasAuthorization(pl) == pl.shape = "evm"

\* the EVM and SVM schemes are other packages: they answer either way
ExternalVerify(pl) ==
  {Invalid("invalid_payment", pl.authorizationFrom), Valid(pl.authorizationFrom)}
ExternalSettle(pl, paymentRequirements) ==
  {NotSettled("invalid_payment", paymentRequirements.network, pl.authorizationFrom),
   Settled("0xh1", paymentRequirements.network, pl.authorizationFrom)}

\* verify of the orchestrator (facilitator.ts lines 32-82): every run it can take
legacyVerifyRuns(pl, paymentRequirements) ==
  IF paymentRequirements.scheme = "exact"
     /\ paymentRequirements.network \in SupportedEVMNetworks \cup SupportedSVMNetworks
  THEN {Outcome(Returned("verify", v, NoSettle), <<>>) : v \in ExternalVerify(pl)}
  ELSE IF paymentRequirements.scheme = "exact" /\ isAptosNetwork(paymentRequirements.network)
  THEN {Outcome(IF r.threw THEN Threw("verify") ELSE Returned("verify", r.resp, NoSettle),
                r.calls) :
          r \in {verifyExactAptos(pl, paymentRequirements, sim) : sim \in SimulateOutcomes}}
  ELSE IF readsAuthorization(pl, paymentRequirements) /\ ~hasAuthorization(pl)
  THEN {Outcome(Threw("verify"), <<>>)}
  ELSE {Outcome(Returned("verify",
                  Invalid("invalid_scheme",
                          IF readsAuthorization(pl, paymentRequirements)
                          THEN pl.authorizationFrom ELSE ""),
                  NoSettle), <<>>)}

\* settle of the orchestrator (facilitator.ts lines 94-141)
legacySettleRuns(pl, paymentRequirements) ==
  IF paymentRequirements.scheme = "exact"
     /\ paymentRequirements.network \in SupportedEVMNetworks \cup SupportedSVMNetworks
  THEN {Outcome(Returned("settle", NoVerify, r), <<>>) :
          r \in ExternalSettle(pl, paymentRequirements)}
  ELSE IF paymentRequirements.scheme = "exact" /\ isAptosNetwork(paymentRequirements.network)
  THEN {settleExactAptos(pl, paymentRequirements, pending, waited) :
          pending \in SubmitOutcomes, waited \in WaitOutcomes}
  ELSE IF readsAuthorization(pl, paymentRequirements) /\ ~hasAuthorization(pl)
  THEN {Outcome(Threw("settle"), <<>>)}
  ELSE {Outcome(Returned("settle", NoVerify,
                  NotSettled("invalid_scheme", paymentRequirements.network,
                             IF readsAuthorization(pl, paymentRequirements)
                             THEN pl.authorizationFrom ELSE "")), <<>>)}

\* a legacy (v1) Aptos payment as the documentation describes it
LegacyAttempt ==
  [PlainAttempt EXCEPT !.version = 1, !.accPresent = FALSE,
                       !.accNetwork = "aptos:1", !.reqNetwork = "aptos-mainnet"]

LegacyDeviations ==
  {<<"version", 1>>, <<"accPresent", TRUE>>, <<"accNetwork", "aptos-mainnet">>,
   <<"accAmount", Dec(99)>>, <<"accPayTo", Str(R2)>>, <<"accAsset", Str(A2)>>,
   <<"reqScheme", "upto">>,
   <<"reqNetwork", "aptos-testnet">>, <<"reqNetwork", "aptos:1">>,
   <<"reqNetwork", "base">>, <<"reqNetwork", "solana">>, <<"reqNetwork", "near">>,
   <<"shape", "evm">>, <<"from", "0xE">>,
   <<"wellFormed", FALSE>>, <<"payloadKind", "script">>,
   <<"modName", "aptos_account">>, <<"fnName", "withdraw">>,
   <<"typeArgs", 2>>, <<"nargs", 2>>,
   <<"arg0", AddrArg(A2)>>, <<"arg1", AddrArg(R2)>>, <<"arg2", U64Arg(99)>>,
   <<"auth", "MultiEd25519">>,
   <<"reqAsset", Str(A2)>>, <<"reqPayTo", Str(R2)>>, <<"reqAmount", Dec(99)>>}

\* every legacy attempt that departs from the documented one in at most
\* three fields
LegacyAttempts ==
  {Deviate(Deviate(Deviate(LegacyAttempt, d1), d2), d3) :
     d1 \in LegacyDeviations, d2 \in LegacyDeviations, d3 \in LegacyDeviations}

InitLegacy ==
  /\ snapshot = "legacy"
  /\ signerAddresses = <<>>
  /\ \E a \in LegacyAttempts : payload = MkPayload(a) /\ requirements = MkRequirements(a)
  /\ now = 0
  /\ pc = "idle"
  /\ valid = NoVerify
  /\ pendingTxn = ""
  /\ log = <<>>
  /\ ret = NoCall
  /\ priorVerify = FALSE
  /\ submitted = NotSubmitted
  /\ CodecAtRest
  /\ ServerAtRest
  /\ PoolAtRest
  /\ ReplayAtRest
  /\ NetworkAtRest
  /\ ClientAtRest

\* a verify call on the orchestrator
LegacyVerify ==
  /\ \E r \in legacyVerifyRuns(payload, requirements) :
       /\ ret' = r.ret
       /\ log' = r.calls
       /\ priorVerify' = (priorVerify \/ (~r.ret.threw /\ r.ret.v.isValid))
  /\ UNCHANGED <<snapshot, signerAddresses, payload, requirements, now, pc, valid, pendingTxn, submitted>>
  /\ UNCHANGED nonFacilitatorVars

\* a settle call on the orchestrator
LegacySettle ==
  /\ \E r \in legacySettleRuns(payload, requirements) :
       /\ ret' = r.ret
       /\ log' = r.calls
  /\ UNCHANGED <<snapshot, signerAddresses, payload, requirements, now, pc, valid, pendingTxn, priorVerify, submitted>>
  /\ UNCHANGED nonFacilitatorVars

NextLegacy == LegacyVerify \/ LegacySettle

SpecLegacy == InitLegacy /\ [][NextLegacy]_vars

----------------------------------------------------------------------------
(* Vocabulary of the properties *)

SubmissionCalls == {"signAndSubmitAsFeePayer", "submitTransaction"}

\* the calls of the given kinds the last / in-flight call made on the chain
Made(calls) == {log[i] : i \in 1..Len(log)} \cap calls

\* the attempt passes the scheme and network checks
SchemeAndNetworkOk ==
  /\ payload.accepted.present
  /\ payload.accepted.scheme = "exact" /\ requirements.scheme = "exact"
  /\ payload.accepted.network = requirements.network

\* the attempt passes the version, scheme and network checks
EnvelopeOk == payload.x402Version = 2 /\ SchemeAndNetworkOk

Decodable == payload.transaction.wellFormed

\* a verify call, or the verify inside a settle call, has accepted the attempt
Accepted == (ret.op = "verify" /\ ~ret.threw /\ ret.v.isValid) \/ valid.isValid

\* the sender is a signer of the facilitator
SenderIsFacilitator ==
  includes(signerAddresses, toString(payload.transaction.tx.sender))

\* requirements.extra.feePayer holds the address of the sender
FeePayerIsSender ==
  /\ ~fromStringThrows(requirements.extra.feePayer)
  /\ fromString(requirements.extra.feePayer) = payload.transaction.tx.sender

\* the decoded transaction is the transfer the requirements ask for
TransferConforms ==
  LET e == payload.transaction.tx.entryFunction IN
  /\ Decodable
  /\ payload.transaction.tx.payloadKind = "entryFunction"
  /\ e.address = ONE
  /\ e.module \in {"primary_fungible_store", "fungible_asset"}
  /\ e.function = "transfer"
  /\ e.type_args = 1
  /\ Len(e.args) = 3
  /\ e.args[1].len = 32 /\ requirements.asset.form \in {"long", "mixed"}
  /\ e.args[1].addr = requirements.asset.hex
  /\ e.args[2].len = 32 /\ requirements.payTo.form \in {"long", "mixed"}
  /\ e.args[2].addr = requirements.payTo.hex
  /\ e.args[3].len >= 8
  /\ e.args[3].n = requirements.amount.n

Generic == IF snapshot = "C" THEN UnexpectedC ELSE Unexpected

TransferringFunds == "invalid_exact_aptos_payload_fee_payer_transferring_funds"
FeePayerMismatch == "invalid_exact_aptos_payload_fee_payer_mismatch"

\* the reasons for which the chain, not the attempt, fails a verify or a settle
ChainReasons ==
  {"invalid_exact_aptos_payload_insufficient_balance",
   "invalid_exact_aptos_payload_simulation_error: rpc",
   "invalid_exact_aptos_payload_simulation_failed: vm_status",
   "transaction_failed"}

\* the attempt is one of the two conforming payments, sponsored or not
Conforming ==
  \E a \in {SponsoredAttempt, PlainAttempt} :
    payload = MkPayload(a) /\ requirements = MkRequirements(a)

----------------------------------------------------------------------------
(* Properties *)

\* C1: settle makes a submission or wait call only after the verify run inside
\* that same settle call returned isValid=true; when that verify returns
\* isValid=false, settle returns success=false, transaction "", errorReason
\* equal to the verify's invalidReason, and has made no submission and no wait
\* call.  (Fails: with payload.accepted missing the early return throws.)
C1_SettleSubmitsOnlyAfterOwnVerify ==
  (snapshot \in {"B", "C"} /\ (pc # "idle" \/ ret.op = "settle")) =>
    /\ pc # "idle" => valid.isValid
    /\ Made(SubmissionCalls \cup {"waitForTransaction"}) # {} => valid.isValid
    /\ (pc = "idle" /\ ~valid.isValid) =>
         /\ ~ret.threw
         /\ ~ret.s.success
         /\ ret.s.transaction = ""
         /\ ret.s.errorReason = valid.invalidReason
         /\ Made(SubmissionCalls \cup {"waitForTransaction"}) = {}

\* C2: verify accepts only a decoded entry-function call to a recognized
\* transfer function at 0x1 with one type argument and three arguments whose
\* asset, recipient and amount equal those of the requirements.
C2_AcceptedTransferConforms == Accepted => TransferConforms

C2_Witness ==
  /\ snapshot = "B" /\ ret.op = "verify" /\ ret.v.isValid
  /\ payload.transaction.tx.entryFunction.module = "fungible_asset"

C4_SenderNeverFacilitator ==
  (snapshot = "B" /\ Decodable /\ SenderIsFacilitator /\ ret.op = "verify")
  => ~ret.v.isValid

C6_ConformingAccepted ==
  (snapshot = "A" /\ Conforming) =>
    /\ ret.op = "verify" =>
         \/ ret.v = Valid(S)
         \/ ret.v.invalidReason \in ChainReasons
    /\ (ret.op = "settle" /\ ~IsString(requirements.extra.feePayer)) =>
         \/ /\ ret.s = Settled(pendingTxn, requirements.network, S)
            /\ Made(SubmissionCalls) = {"submitTransaction"}
         \/ ret.s.errorReason \in ChainReasons

\* C7: the legacy settle for an Aptos network submits only a payload that the
\* legacy verify can accept.  (Fails: the legacy settle never verifies.)
C7_LegacySettleVerifies ==
  (/\ snapshot = "legacy" /\ ret.op = "settle"
   /\ isAptosNetwork(requirements.network)
   /\ Made({"submit"}) # {})
  => \E r \in legacyVerifyRuns(payload, requirements) : ~r.ret.threw /\ r.ret.v.isValid

\* C8: verify never throws and always returns a VerifyResponse; a missing
\* accepted record and an undecodable transaction, which no specific check
\* handles, are answered with the generic reason.
C8_VerifyNeverThrows ==
  ret.op = "verify" =>
    /\ ~ret.threw
    /\ ret.v # NoVerify
    /\ ret.v.isValid = (ret.v.invalidReason = "undefined")
    /\ ((snapshot = "C" \/ payload.x402Version = 2) /\ ~payload.accepted.present)
       => ret.v = Generic
    /\ (/\ ~Decodable /\ SchemeAndNetworkOk
        /\ (snapshot = "C" \/ payload.x402Version = 2)
        /\ \/ snapshot = "C"
           \/ includes(signerAddresses, requirements.extra.feePayer)
           \/ (snapshot = "B" /\ ~IsString(requirements.extra.feePayer)))
       => ret.v = Generic

C8_Witness ==
  /\ snapshot = "B" /\ ret.op = "verify" /\ ~Decodable /\ payload.accepted.present
  /\ ret.v = Unexpected

\* C9: the legacy verify answers invalid_scheme, without throwing, whenever
\* the scheme is not "exact" or the network is in none of the three sets.
\* (Fails: for an EVM network and a payload without authorization the
\* fallthrough throws.)
C9_LegacyInvalidScheme ==
  (/\ snapshot = "legacy" /\ ret.op = "verify"
   /\ \/ requirements.scheme # "exact"
      \/ requirements.network \notin
           SupportedEVMNetworks \cup SupportedSVMNetworks \cup SupportedAptosNetworks)
  => ~ret.threw /\ ~ret.v.isValid /\ ret.v.invalidReason = "invalid_scheme"

\* C10: settle never throws: every settle call ends with a SettleResponse.
\* (Fails: after a verify that ended in its generic catch for a missing
\* accepted record, the early return reads payload.accepted.network.)
C10_SettleNeverThrows ==
  (snapshot = "B" /\ ret.op = "settle") => ~ret.threw

\* the payload with argument i of the entry function replaced
ChangeArg(pl, i, arg) ==
  [pl EXCEPT !.transaction.tx.entryFunction.args[i] = arg]

\* every answer verify can give on a payload, whatever the chain answers
Answers(pl) ==
  {r.resp : r \in {verify(snapshot, pl, requirements, signerAddresses, now, bal, sim) :
                     bal \in BalanceOutcomes, sim \in SimulateOutcomes}}

OtherAddresses(a) == {A, A2, R, R2} \ {a}

\* the reason each snapshot gives for a field of the transfer
MismatchReason(field) ==
  IF snapshot = "C"
  THEN CASE field = "asset" -> "invalid_payment_asset_mismatch"
         [] field = "recipient" -> "invalid_payment_recipient_mismatch"
         [] field = "amount" -> "invalid_payment_amount_mismatch"
  ELSE CASE field = "asset" -> "invalid_exact_aptos_payload_asset_mismatch"
         [] field = "recipient" -> "invalid_exact_aptos_payload_recipient_mismatch"
         [] field = "amount" -> "invalid_exact_aptos_payload_amount_mismatch"

\* C11: from an accepted payload, changing only the asset, only the recipient
\* or only the amount (by one unit) makes verify answer isValid=false with
\* the reason of that field; the three reasons are distinct and each is given
\* only when that field differs.
C11_OneFieldChangeSpecificReason ==
  LET e == payload.transaction.tx.entryFunction
      sender == payload.transaction.tx.sender
  IN
  /\ Accepted =>
       /\ \A a \in OtherAddresses(e.args[1].addr) :
            Answers(ChangeArg(payload, 1, AddrArg(a))) =
              {Invalid(MismatchReason("asset"), sender)}
       /\ \A a \in OtherAddresses(e.args[2].addr) :
            Answers(ChangeArg(payload, 2, AddrArg(a))) =
              {Invalid(MismatchReason("recipient"), sender)}
       /\ \A n \in {e.args[3].n - 1, e.args[3].n + 1} :
            Answers(ChangeArg(payload, 3, U64Arg(n))) =
              {Invalid(MismatchReason("amount"), sender)}
  /\ Cardinality({MismatchReason("asset"), MismatchReason("recipient"),
                  MismatchReason("amount")}) = 3
  /\ (ret.op = "verify" /\ ret.v.invalidReason = MismatchReason("asset"))
     => e.args[1].addr # requirements.asset.hex
  /\ (ret.op = "verify" /\ ret.v.invalidReason = MismatchReason("recipient"))
     => e.args[2].addr # requirements.payTo.hex
  /\ (ret.op = "verify" /\ ret.v.invalidReason = MismatchReason("amount"))
     => deserializeU64(e.args[3]) # requirements.amount

C11_Witness ==
  /\ snapshot = "C" /\ ret.op = "verify" /\ ret.v.isValid
  /\ Answers(ChangeArg(payload, 3, U64Arg(payload.transaction.tx.entryFunction.args[3].n + 1)))
       = {Invalid("invalid_payment_amount_mismatch", payload.transaction.tx.sender)}

\* how many calls of the given kinds the last / in-flight call made
Count(calls) == Cardinality({i \in 1..Len(log) : log[i] \in calls})

\* settle is past its submission
Submitted == pc = "wait" \/ (ret.op = "settle" /\ Made(SubmissionCalls) # {})

\* C12: after a passing re-verify settle makes exactly one submission call,
\* signAndSubmitAsFeePayer if and only if requirements.extra.feePayer is set,
\* submitTransaction otherwise.  (Fails in scheme.ts: the path is chosen by
\* requirements.extra.sponsored, which verify never relates to feePayer.)
C12_OneSubmissionByFeePayer ==
  (snapshot \in {"B", "C"} /\ Submitted) =>
    /\ valid.isValid
    /\ Count(SubmissionCalls) = 1
    /\ Made(SubmissionCalls) =
         {IF IsString(requirements.extra.feePayer)
          THEN "signAndSubmitAsFeePayer" ELSE "submitTransaction"}

\* C13: within a settle call the chain operations are simulate, then the
\* submission, then the wait, each made only after the one before it
\* returned; settle reports success only when the wait was its last
\* operation and returned, and then `transaction` is the hash its own
\* submission returned.
C13_SimulateSubmitWaitInOrder ==
  (pc # "idle" \/ ret.op = "settle") =>
    /\ \A i \in 1..Len(log) :
         /\ log[i] \in SubmissionCalls => (i > 1 /\ log[i-1] = "simulate")
         /\ log[i] = "waitForTransaction" => (i > 1 /\ log[i-1] \in SubmissionCalls)
         /\ log[i] \in {"threw", "timeout", "failed"}
            => (i = Len(log) /\ pc = "idle" /\ ~ret.s.success)
    /\ Count(SubmissionCalls) <= 1 /\ Count({"waitForTransaction"}) <= 1
    /\ pc = "submit" => (log # <<>> /\ log[Len(log)] = "simulate")
    /\ pc = "wait" => (log[Len(log)] \in SubmissionCalls /\ pendingTxn \in Hashes)
    /\ (ret.op = "settle" /\ ~ret.threw /\ ret.s.success) =>
         /\ log[Len(log)] = "waitForTransaction"
         /\ pendingTxn \in Hashes
         /\ ret.s.transaction = pendingTxn

C13_Witness ==
  /\ snapshot = "B" /\ ret.op = "settle" /\ ret.s.success
  /\ ret.s.transaction = "0xh2"
  /\ log = <<"balance", "simulate", "signAndSubmitAsFeePayer", "waitForTransaction">>

\* C14: in a sponsored settlement with requirements.extra.feePayer = F the
\* fee-payer signature of the submitted transaction is F's and its fee-payer
\* address is F.  (Fails with scheme.ts and signer.ts: the signer account
\* sets itself as fee payer and signs, whatever extra.feePayer says, and
\* verify never compares the two.)
C14_FeePayerSignsAsNamed ==
  (/\ Made({"signAndSubmitAsFeePayer"}) # {}
   /\ ~fromStringThrows(requirements.extra.feePayer))
  => /\ submitted.feePayerSigner = fromString(requirements.extra.feePayer)
     /\ submitted.feePayerAddress = fromString(requirements.extra.feePayer)

\* C15: a settle whose wait for confirmation timed out reports an
\* errorReason different from the one reported when the chain rejected the
\* submission and from the one reported when the transaction failed on
\* chain.  (Fails: one catch block answers all three with
\* transaction_failed.)
C15_TimeoutDistinguished ==
  (/\ snapshot = "B" /\ ret.op = "settle" /\ ~ret.threw
   /\ log # <<>> /\ log[Len(log)] = "timeout")
  => ret.s.errorReason \notin
       {settleFailed(payload, valid).s.errorReason,
        settleAfterWait(payload, valid, pendingTxn, "failed").s.errorReason}

\* C16: when the submission of a settle call returned a pending transaction,
\* the SettleResponse of that call carries its hash: it is never
\* success=false with an empty transaction.  (Fails: a wait that throws
\* lands in the catch block, which returns transaction "".)
C16_BroadcastSurfaced ==
  (snapshot = "B" /\ ret.op = "settle" /\ ~ret.threw /\ pendingTxn \in Hashes)
  => /\ ret.s.transaction = pendingTxn
     /\ ~(~ret.s.success /\ ret.s.transaction = "")

\* the buffer of the deployed snapshot
Buffer ==
  IF snapshot = "A" THEN EXPIRATION_BUFFER_SECONDS_A ELSE EXPIRATION_BUFFER_SECONDS_B

\* C17: a verify call accepts only a transaction whose expiration is strictly
\* greater than now + buffer at the time of the call.  (Fails: the code
\* rejects only expiration < now + buffer, so expiration = now + buffer is
\* accepted.)
C17_ExpirationStrictlyBeyondBuffer ==
  [][(/\ snapshot \in {"A", "B"} /\ now' = now
      /\ ret'.op = "verify" /\ ret'.v.isValid)
     => payload.transaction.tx.expiration_timestamp_secs > now + Buffer]_vars

\* a balance query that throws, and one that reports enough
BalanceFails == [threw |-> TRUE, amount |-> 0]
BalanceEnough == [threw |-> FALSE, amount |-> requirements.amount.n]

\* C18: a failing balance query never by itself invalidates a payment: for
\* every answer of the simulation, verify with a failing balance query
\* answers what it answers with the balance pre-check passed, and a verify
\* whose balance query failed never reports insufficient balance.
C18_BalanceFailureIgnored ==
  /\ \A sim \in SimulateOutcomes :
       verify(snapshot, payload, requirements, signerAddresses, now, BalanceFails, sim).resp
       = verify(snapshot, payload, requirements, signerAddresses, now, BalanceEnough, sim).resp
  /\ (ret.op = "verify" /\ Made({"unavailable"}) # {}) =>
       /\ ret.v.invalidReason # "invalid_exact_aptos_payload_insufficient_balance"
       /\ Made({"simulate"}) = {} =>
            ret.v.invalidReason = "invalid_exact_aptos_payload_transaction_expired"

C18_Witness ==
  /\ snapshot = "B" /\ ret.op = "verify" /\ ret.v.isValid
  /\ log = <<"balance", "unavailable", "simulate">>

\* C19: verify never calls simulate with an undefined public key, whatever
\* the variant of the sender authenticator.  (Fails: part_001 and scheme.ts
\* have no branch for MultiEd25519, which leaves publicKey undefined.)
C19_SimulateGetsPublicKey ==
  (snapshot = "B" /\ Made({"simulate"}) # {})
  => Made({"undefined public key"}) = {}

\* the reasons of an operational failure
OperationalReasons ==
  {"adapter_unavailable", "timeout", "unexpected_verify_error",
   "invalid_exact_aptos_payload_unexpected_error"}

\* C20: when the simulate call of verify throws, verify reports an
\* operational failure and not an invalid payment.  (Fails: the catch block
\* of the simulation returns isValid=false with the reason
\* invalid_exact_aptos_payload_simulation_error.)
C20_SimulateFailureOperational ==
  (/\ snapshot = "B" /\ ret.op = "verify" /\ ~ret.threw
   /\ Len(log) >= 2 /\ log[Len(log)] = "threw" /\ log[Len(log) - 1] = "simulate")
  => ret.v.invalidReason \in OperationalReasons

\* the transaction calls one of the two recognized transfer functions
RecognizedTransfer ==
  LET transaction == payload.transaction.tx IN
  /\ hasEntryFunction(transaction)
  /\ \/ isPrimaryFungibleStore(transaction.entryFunction)
     \/ isFungibleAsset(transaction.entryFunction)

EntryPointReasons ==
  {"invalid_exact_aptos_payload_missing_entry_function",
   "invalid_exact_aptos_payload_wrong_function"}

\* C21: verify answers with the reason of the earliest failing check in the
\* order scheme and network, transfer entry point, arity, asset / recipient /
\* amount, sponsorship, expiration, balance, simulation, and performs no
\* later check: a transaction that is not a recognized transfer is answered
\* with the entry-point reason whatever its sponsorship, and an expired
\* transaction is answered without a balance query.  (Fails: the sponsorship
\* checks run before the entry-point check, and the balance query runs
\* before the expiration check.)
C21_ChecklistOrder ==
  (snapshot = "B" /\ ret.op = "verify" /\ ~ret.threw) =>
    /\ (EnvelopeOk /\ Decodable /\ ~RecognizedTransfer)
       => ret.v.invalidReason \in EntryPointReasons
    /\ ret.v.invalidReason = "invalid_exact_aptos_payload_transaction_expired"
       => Made({"balance"}) = {}

\* the text of an address as toStringLong prints it, and the requirements
\* with every compared field in that canonical text
CanonicalStr(v) == IF v.form = "mixed" THEN Str(v.hex) ELSE v

Canonical(req) ==
  [req EXCEPT !.asset = CanonicalStr(@), !.payTo = CanonicalStr(@),
              !.amount = Dec(@.n), !.extra.feePayer = CanonicalStr(@)]

\* C22: the answer of verify depends only on the canonical values of asset,
\* payTo, feePayer and amount: requirements that write the same address in
\* other letters or the same amount with a leading zero get the answer the
\* canonical text gets.  (Fails: extra.feePayer is looked up among the
\* signer addresses as a string, and the amount is compared as a string.)
C22_RepresentationIndependent ==
  snapshot = "B" =>
    \A bal \in BalanceOutcomes, sim \in SimulateOutcomes :
      verify(snapshot, payload, requirements, signerAddresses, now, bal, sim).resp
      = verify(snapshot, payload, Canonical(requirements), signerAddresses, now, bal, sim).resp

\* payload.accepted names the asset, recipient, amount and fee payer the
\* requirements name
AcceptedIsRequirements ==
  /\ payload.accepted.present
  /\ CanonicalStr(payload.accepted.asset) = CanonicalStr(requirements.asset)
  /\ CanonicalStr(payload.accepted.payTo) = CanonicalStr(requirements.payTo)
  /\ payload.accepted.amount.n = requirements.amount.n
  /\ CanonicalStr(payload.accepted.extra.feePayer)
       = CanonicalStr(requirements.extra.feePayer)

\* C23: verify accepts a payload only if its accepted record is the
\* requirements record: one that differs in asset, payTo, amount or extra is
\* never answered isValid=true.  (Fails: of the accepted record verify reads
\* only scheme and network.)
C23_AcceptedBoundToRequirements ==
  (snapshot = "B" /\ ret.op = "verify" /\ ret.v.isValid) => AcceptedIsRequirements

\* C24: decoding what the encoding of the byte sequences (a, b) produced
\* yields (a, b): the decoder returns, and the transaction and the
\* authenticator it returns are those of a and of b, nothing altered,
\* truncated or swapped.  (Fails: the decoder hands a to
\* SimpleTransaction.deserialize and b to AccountAuthenticator.deserialize,
\* which throw on empty and on other byte sequences, among them the raw
\* transaction bytes the encoder of part_003 writes.)
C24_CodecRoundTrip ==
  decoded.done =>
    /\ ~decoded.threw
    /\ SimpleTransactionBytes(decoded.transaction) = transactionBytes
    /\ AccountAuthenticatorBytes(decoded.senderAuthenticator) = authenticatorBytes

\* floor(x * 10^decimals), written in decimal without leading zeros
AtomicAmount(x, decimals) ==
  LET m == x.n + decimals IN
  IF Len(x.digits) = 0 \/ m <= 0 THEN <<48>>
  ELSE IF m >= Len(x.digits) THEN DigitChars(x.digits) \o Zeros(m - Len(x.digits))
  ELSE DigitChars(SubSeq(x.digits, 1, m))

\* the last parsePrice went on to the default conversion
DefaultConversionUsed == parserCalls # <<>> /\ parserCalls[Len(parserCalls)] = 0

\* C25: for a non-negative decimal price that no registered parser resolves,
\* parsePrice returns floor(price * 10^6) as a decimal string without leading
\* zeros, digits beyond the sixth truncated; "1.50" gives "1500000", and a
\* price below 10^-6 or a very large one still gives an integer string.
\* (Fails: below 10^-6 and from 10^21 on the number prints in exponential
\* notation, which BigInt rejects.)
C25_DefaultConversionTruncates ==
  (assetAmount.done /\ DefaultConversionUsed) =>
    /\ ~assetAmount.threw
    /\ assetAmount.value.kind = "AssetAmount"
    /\ assetAmount.value.amount = AtomicAmount(parseMoneyToDecimal(price), 6)
    /\ price = StringPrice(<<49, 46, 53, 48>>)
       => assetAmount.value.amount = <<49, 53, 48, 48, 48, 48, 48>>

\* the price is Money that parseMoneyToDecimal turns into a number
DecimalPrice ==
  /\ price.kind \in {"number", "string"}
  /\ ~(price.kind = "string" /\ parseMoneyToDecimal(price).nan)

\* a parsePrice call returns in this step
ParsePriceReturns ==
  /\ assetAmount'.done
  /\ <<parserCalls', assetAmount'>> # <<parserCalls, assetAmount>>

\* the registered parsers that do not decline
NotDeclining == {j \in 1..Len(moneyParsers) : moneyParsers[j] # Null}

\* C26: for a decimal price parsePrice calls the registered parsers one at a
\* time in registration order up to the first that does not decline, whose
\* result is the result of parsePrice, and no parser after it; the default
\* conversion is used if and only if every registered parser declined.
C26_FirstNonDecliningParserWins ==
  [][(ParsePriceReturns /\ DecimalPrice) =>
       IF NotDeclining = {}
       THEN /\ parserCalls' = [j \in 1..Len(moneyParsers) |-> j] \o <<0>>
            /\ assetAmount' =
                 [defaultMoneyConversion(parseMoneyToDecimal(price), priceNetwork, <<>>)
                    EXCEPT !.calls = <<>>]
       ELSE LET first == CHOOSE j \in NotDeclining : \A l \in NotDeclining : j <= l IN
            /\ parserCalls' = [j \in 1..first |-> j]
            /\ IF moneyParsers[first] = ParserThrows
               THEN assetAmount'.threw
               ELSE ~assetAmount'.threw /\ assetAmount'.value = moneyParsers[first]]_vars

\* two parsers are registered, the first answered and the second was not called
C26_Witness ==
  /\ Len(moneyParsers) = 2
  /\ DecimalPrice
  /\ moneyParsers[1] = AssetAmount(<<55>>, <<48, LetterX, 49>>)
  /\ moneyParsers[2] # Null
  /\ parserCalls = <<1>>
  /\ assetAmount.done /\ ~assetAmount.threw
  /\ assetAmount.value = moneyParsers[1]

\* 0x followed by 64 hex digits
WellFormedAddress(text) ==
  /\ Len(text) = 66
  /\ SubSeq(text, 1, 2) = <<48, 120>>
  /\ \A i \in 3..66 : text[i] \in (48..57) \cup (65..70) \cup (97..102)

\* the price names an asset and an atomic amount
ExplicitAssetAmount == price.kind = "object" /\ price.hasAmount

\* C27: a price that names an asset and an atomic amount is returned with
\* that asset and amount when the asset is 0x followed by 64 hex digits, and
\* parsePrice throws when the asset is missing or malformed; no registered
\* parser and no default conversion is consulted either way.
C27_ExplicitAssetPassesThrough ==
  (assetAmount.done /\ ExplicitAssetAmount) =>
    /\ parserCalls = <<>>
    /\ IF price.asset.defined /\ WellFormedAddress(price.asset.text)
       THEN /\ ~assetAmount.threw
            /\ assetAmount.value = AssetAmount(price.amount, price.asset.text)
       ELSE assetAmount.threw

\* a mixed-case address passed through although a parser that answers is
\* registered
C27_Witness ==
  /\ ExplicitAssetAmount
  /\ WellFormedAddress(price.asset.text)
  /\ \E i \in 3..66 : price.asset.text[i] \in 65..70
  /\ assetAmount.done /\ ~assetAmount.threw
  /\ assetAmount.value = AssetAmount(price.amount, price.asset.text)
  /\ moneyParsers # <<>> /\ moneyParsers[1] \notin {Null, ParserThrows}
  /\ parserCalls = <<>>

\* an enhancePaymentRequirements call returns in this step
EnhanceReturns == enhanced'.done /\ ~enhanced.done

EnhancedNeverUnmanaged ==
  (IsString(requirements.extra.feePayer) /\ ret.op = "verify" /\ ~ret.threw) =>
    ret.v.invalidReason # "fee_payer_not_managed_by_facilitator"

\* C29: the feePayer getExtra advertises is one of the addresses getSigners
\* returns on the same instance, never undefined, whatever the size of the
\* pool, so verify does not answer fee_payer_not_managed_by_facilitator to
\* requirements enhanced with it.
\* (Fails: with an empty pool getExtra advertises addresses[0], undefined.)
C29_AdvertisedFeePayerIsSigner ==
  /\ (advertised.done /\ advertised.hasFeePayer) =>
       \E i \in 1..Len(getSigners(signerAddresses).items) :
         getSigners(signerAddresses).items[i] = advertised.feePayer
  /\ EnhancedNeverUnmanaged

\* C30: no getExtra, getSigners, verify or settle step, and no write of a
\* caller to the array getSigners returned, changes the signer addresses in
\* content or order.
C30_SignerSetNeverChanges ==
  [][signerAddresses' = signerAddresses]_vars

\* a caller rewrote the array it got from getSigners, the pool is as it was
\* constructed, and a settle on a fee payer advertised from it went through
C30_Witness ==
  /\ callerArray.mutated
  /\ callerArray.items # signerAddresses
  /\ signerAddresses = <<Str(F1), Str(F2)>>
  /\ advertised.done /\ advertised.feePayer = Str(F2)
  /\ ret.op = "settle" /\ ~ret.threw /\ ret.s.success
  /\ submitted.feePayerSigner = F2

\* the sender address a response names as payer
SenderAddress == toString(payload.transaction.tx.sender).hex

\* the last call returned a VerifyResponse / a SettleResponse
VerifyReturned == ret.op = "verify" /\ ~ret.threw
SettleReturned == ret.op = "settle" /\ ~ret.threw

\* C31: every response is fully filled. A VerifyResponse with isValid=true
\* has no invalidReason and the sender as payer, one with isValid=false has
\* an invalidReason; a SettleResponse with success=true has a transaction
\* hash, no errorReason and a payer, one with success=false has an
\* errorReason and transaction ""; payer is never undefined.
\* (Fails: the catch-all paths of the legacy verify and settle answer
\* payer: undefined.)
C31_ResponsesFullyFilled ==
  /\ VerifyReturned =>
       /\ ret.v.isValid =>
            ret.v.invalidReason = "undefined" /\ ret.v.payer = SenderAddress
       /\ ~ret.v.isValid => ret.v.invalidReason # "undefined"
       /\ ret.v.payer # "undefined"
  /\ SettleReturned =>
       /\ ret.s.success =>
            /\ ret.s.transaction # ""
            /\ ret.s.errorReason = "undefined"
            /\ ret.s.payer \notin {"", "undefined"}
       /\ ~ret.s.success => ret.s.errorReason # "undefined" /\ ret.s.transaction = ""
       /\ ret.s.payer # "undefined"

\* C32: whatever the number and interleaving of settle calls on one payload,
\* with a chain that protects the sequence number in simulation and in
\* execution, the transfer is committed at most once, every settle that
\* answers success names the hash that was committed, and a settle that
\* began after the commit fails its re-verify and submits nothing.
C32_CommittedAtMostOnce ==
  /\ commitCount <= 1
  /\ \A c \in 1..Len(settles) :
       /\ (settles[c].pc = "done" /\ ~settles[c].ret.threw /\ settles[c].ret.s.success) =>
            committed # "none" /\ settles[c].ret.s.transaction = committed
       /\ settles[c].afterCommit =>
            /\ settles[c].submissions = 0
            /\ settles[c].pc \in {"verify", "done"}
            /\ settles[c].pc = "done" => ~settles[c].valid.isValid
            /\ (settles[c].pc = "done" /\ ~settles[c].ret.threw) => ~settles[c].ret.s.success

\* one settle went through, a second one began after the commit and was
\* turned away by its re-verify without a submission
C32_Witness ==
  /\ Len(settles) = 2
  /\ commitCount = 1
  /\ settles[1].pc = "done" /\ settles[1].ret.s.success
  /\ settles[1].ret.s.transaction = committed
  /\ settles[2].afterCommit /\ settles[2].pc = "done"
  /\ ~settles[2].ret.s.success /\ settles[2].submissions = 0

\* C33: getAptosNetwork answers the mainnet for "aptos:1" and the testnet
\* for "aptos:2", and throws "Unsupported Aptos network" for every other
\* identifier; no identifier is mapped to a default network.
C33_OnlyTwoNetworksResolve ==
  aptosNetwork.done =>
    IF networkId = <<97, 112, 116, 111, 115, 58, 49>>
    THEN ~aptosNetwork.threw /\ aptosNetwork.network = "mainnet"
    ELSE IF networkId = <<97, 112, 116, 111, 115, 58, 50>>
    THEN ~aptosNetwork.threw /\ aptosNetwork.network = "testnet"
    ELSE /\ aptosNetwork.threw
         /\ aptosNetwork.network = "none"
         /\ aptosNetwork.message = "Unsupported Aptos network: "
         /\ aptosNetwork.of = networkId

\* the legacy name "aptos-mainnet" was refused
C33_Witness ==
  /\ networkId = <<97, 112, 116, 111, 115, 45, 109, 97, 105, 110, 110, 101, 116>>
  /\ aptosNetwork.done /\ aptosNetwork.threw

\* the orchestrator handed the last verify to the Aptos scheme, which answered
LegacyAptosVerified ==
  /\ ret.op = "verify" /\ ~ret.threw
  /\ requirements.scheme = "exact"
  /\ requirements.network \in {"aptos-mainnet", "aptos-testnet"}

\* the transaction pays the asset, recipient and amount of the requirements
\* the resource server supplied
PaysWhatServerRequires ==
  LET args == payload.transaction.tx.entryFunction.args IN
  /\ Len(args) = 3
  /\ args[1].len = 32 /\ args[1].addr = requirements.asset.hex
  /\ args[2].len = 32 /\ args[2].addr = requirements.payTo.hex
  /\ args[3].len = 8 /\ args[3].n = requirements.amount.n

\* C34: the legacy Aptos verify answers isValid=true only for a transaction
\* whose asset, recipient and amount equal those of the paymentRequirements
\* argument; what payload.accepted says never makes it accept another one.
\* (Fails: the checks read `payload.accepted || paymentRequirements`.)
C34_LegacyBoundToServerRequirements ==
  (LegacyAptosVerified /\ ret.v.isValid) => PaysWhatServerRequires

\* the entry function is 0x1::primary_fungible_store::transfer
CallsTransferFunction ==
  LET entryFunction == payload.transaction.tx.entryFunction IN
  /\ payload.transaction.tx.payloadKind = "entryFunction"
  /\ entryFunction.address = "0x1"
  /\ entryFunction.module = "primary_fungible_store"
  /\ entryFunction.function = "transfer"

\* C35: the legacy Aptos verify accepts only transactions that call
\* 0x1::primary_fungible_store::transfer, and answers invalid_payment to a
\* transaction that calls any other entry function.
\* (Fails: the function test is inverted.)
C35_LegacyTransferFunctionOnly ==
  LegacyAptosVerified =>
    /\ ret.v.isValid => CallsTransferFunction
    /\ (payload.transaction.wellFormed /\ payload.shape = "aptos"
        /\ payload.transaction.tx.payloadKind = "entryFunction"
        /\ ~CallsTransferFunction /\ ret.v.invalidReason # "unexpected_verify_error")
       => (~ret.v.isValid /\ ret.v.invalidReason = "invalid_payment")

\* the transactions build.simple returns, with and without the fee-payer slot
\* (withFeePayer puts the zero address there), and the authenticators the
\* sender's signature gives
BuiltTransactions ==
  [rawTransaction : [1..RawTransactionLen -> ByteValues],
   feePayerAddress : {NoFeePayer, [i \in 1..AddressLen |-> 0]}]
BuiltAuthenticators ==
  [variant : {0, 1}, key : [1..KeyLen -> ByteValues]]

\* part_003 lines 116-130: the raw transaction alone is serialised
createAndSignPayment(transaction, senderAuthenticator) ==
  encodeAptosPayload(transaction.rawTransaction,
                     AccountAuthenticatorBytes(senderAuthenticator))

\* scheme.ts lines 386-390: the whole SimpleTransaction is serialised
createPaymentPayload(transaction, senderAuthenticator) ==
  encodeAptosPayload(SimpleTransactionBytes(transaction),
                     AccountAuthenticatorBytes(senderAuthenticator))

\* the payload under way is one a client function wrote for (t, a)
ClientWrote(t, a) ==
  /\ authenticatorBytes = AccountAuthenticatorBytes(a)
  /\ \/ /\ transactionBytes = SimpleTransactionBytes(t)
        /\ base64Transaction = createPaymentPayload(t, a)
     \/ /\ transactionBytes = t.rawTransaction
        /\ t.feePayerAddress = NoFeePayer
        /\ base64Transaction = createAndSignPayment(t, a)

\* C36: every payload a client function produced for a transaction t signed
\* into the authenticator a decodes, without error, into t (fee-payer slot
\* included) and a.  (Fails: createAndSignPayment of part_003 writes the raw
\* transaction, the decoder reads a SimpleTransaction.)
C36_ClientPayloadDecodes ==
  \A t \in BuiltTransactions, a \in BuiltAuthenticators :
    (ClientWrote(t, a) /\ decoded.done) => decoded = Decoded(t, a)

\* C36, the part that holds: what createPaymentPayload wrote decodes into the
\* transaction and the authenticator it was given
FullFormDecodes ==
  \A t \in BuiltTransactions, a \in BuiltAuthenticators :
    (/\ transactionBytes = SimpleTransactionBytes(t)
     /\ base64Transaction = createPaymentPayload(t, a)
     /\ decoded.done) => decoded = Decoded(t, a)
FullFormDecoded ==
  \E t \in BuiltTransactions, a \in BuiltAuthenticators :
    /\ transactionBytes = SimpleTransactionBytes(t)
    /\ base64Transaction = createPaymentPayload(t, a)
    /\ decoded.done

\* the requirements and the signer a client must refuse
IsAddressValue(v) == v.kind = "string" /\ WellFormedAddress(v.text)
IsDecimalValue(v) ==
  /\ v.kind = "string"
  /\ v.text # <<>>
  /\ \A i \in 1..Len(v.text) : v.text[i] \in 48..57
InvalidForClient ==
  \/ clientInput.accountAddress.kind = "undefined"
  \/ ~IsAddressValue(clientInput.asset)
  \/ ~IsAddressValue(clientInput.payTo)
  \/ ~IsDecimalValue(clientInput.amount)
  \/ /\ clientKind = "legacy"
     /\ clientInput.gasStation.kind = "string"
     /\ clientInput.gasStation.text # <<>>

ClientSigned == clientCall.done /\ clientCall.signed /\ ~InvalidForClient

\* the calls that read the chain and leave it as it is
ReadOnlyCalls ==
  {"balance", "unavailable", "simulate", "undefined public key", "threw"}

\* a step that is a verify call, from entry to return
VerifyStep == pc = "idle" /\ pc' = "idle" /\ ret'.op = "verify" /\ now' = now

\* C38: a verify call makes only balance and simulate calls on the chain (no
\* submission, no fee-payer signature, no wait), and leaves the payload, the
\* requirements and whatever was submitted before as they were.
C38_VerifyReadsOnly ==
  [][VerifyStep =>
       /\ \A i \in 1..Len(log') : log'[i] \in ReadOnlyCalls
       /\ payload' = payload
       /\ requirements' = requirements
       /\ submitted' = submitted
       /\ pendingTxn' = pendingTxn
       /\ signerAddresses' = signerAddresses]_vars

\* a verify that went through the balance query and the simulation, after a
\* settle had submitted the payment
C38_Witness ==
  /\ ret.op = "verify" /\ ~ret.threw /\ ret.v.isValid
  /\ log = <<"balance", "simulate">>
  /\ submitted # NotSubmitted

\* the settle call in flight, or the last one, has submitted the payment
SettleSubmitted == submitted # NotSubmitted

PlainSubmitted == SettleSubmitted /\ ~isSponsoredSettle(snapshot, requirements)

\* "aptos-mainnet" and "aptos-testnet" as texts: the identifiers the
\* orchestrators route to the Aptos family
RoutedNetworkIds ==
  {<<97, 112, 116, 111, 115, Minus, 109, 97, 105, 110, 110, 101, 116>>,
   <<97, 112, 116, 111, 115, Minus, 116, 101, 115, 116, 110, 101, 116>>}

\* contracts.ts lines 182-188: the client, or the error of getAptosNetwork
createAptosConnectedClient(text) ==
  LET sdkNetwork == getAptosNetwork(text) IN
  [threw |-> sdkNetwork.threw, network |-> text,
   rpcUrl |-> IF sdkNetwork.threw THEN "none" ELSE sdkNetwork.network]

\* createConnectedClient returns a client for every routed identifier
ConnectedClientResolves ==
  (aptosNetwork.done /\ networkId \in RoutedNetworkIds) =>
    ~createAptosConnectedClient(networkId).threw

\* the documented legacy payment, on a network the orchestrator routes to
\* the Aptos family: nothing but the network mapping can throw on it
RoutedLegacyPayment ==
  /\ snapshot = "legacy"
  /\ payload = MkPayload(LegacyAttempt)
  /\ isAptosNetwork(requirements.network)
  /\ requirements = [MkRequirements(LegacyAttempt) EXCEPT !.network = requirements.network]

\* C40: on every network the legacy orchestrator routes to the Aptos family
\* the Aptos verify resolves a chain client: it does not end in
\* unexpected_verify_error because the network mapping does not know the
\* name.  (Fails: the mapping knows "aptos:1" and "aptos:2", the routing
\* "aptos-mainnet" and "aptos-testnet".)
C40_RoutedNetworksResolve ==
  (RoutedLegacyPayment /\ ret.op = "verify") =>
    /\ ~ret.threw
    /\ ret.v.invalidReason # "unexpected_verify_error"

====
